---- MODULE Spec2Model ----
(***************************************************************************)
(* A model of the ns-checker DNS sinkhole: the per-client token-bucket     *)
(* rate limiter (package ratelimit), the handler's cache (package cache,   *)
(* BasicCache), the message validator (package validator), the response    *)
(* synthesizers (package protocol and the single-file listener), the       *)
(* request handler DNSListener.HandleRequest, the socket server (package   *)
(* network) and the worker pool (package processor).                       *)
(*                                                                         *)
(* Time is a count of ticks.  A call reads the clock once (time.Now()) and *)
(* runs under the component's mutex, so a call is one atomic step.         *)
(* Tokens are real numbers in the code; the model keeps them as a whole    *)
(* number of 1/Unit tokens and rates as 1/Unit tokens per tick, so that    *)
(* fractional refills are exact.                                           *)
(***************************************************************************)
EXTENDS Integers, Sequences, FiniteSets, TLC

VARIABLES
    now,        \* the clock read by time.Now(), in ticks
    rate,       \* RateLimiter.rate, in 1/Unit tokens per tick
    burst,      \* RateLimiter.burst, in tokens
    limits,     \* RateLimiter.limits: key -> [tokens, lastCheck]
    rlStats,    \* RateLimiter.stats: [allowed, limited, activeKeys]
    cleanupEvery, \* RateLimiter.cleanupEvery, in ticks
    lastAllow,  \* history: the last Allow call, its pre-state and its result
    grants,     \* history: key -> times at which Allow returned true
    items,      \* BasicCache.items: key -> [value, expiration, size]
    currentSize, \* BasicCache.currentSize
    maxSize,    \* BasicCache.maxSize
    defaultTTL, \* BasicCache.defaultTTL, in ticks
    cacheStats, \* BasicCache.stats and BasicCache.evictions
    stuck,      \* "" or how a cache call that holds c.mu came to never return
    recency,    \* history: the keys stored, least recently used first
    lastCall,   \* history: the last cache Get or Set, what it found and did
    setInfo,    \* history: key -> time and ttl of the latest Set of the key
    cacheOps,   \* history: the number of cache calls made
    msg,        \* the byte sequence handed to the validator and the synthesizers
    pc,         \* the position of the codec run over msg
    qErr,       \* the error ValidateQuery(msg) returned ("" is nil)
    response,   \* protocol.CreateDNSResponse(msg, _)
    legacy,     \* createDNSResponse(msg, _) of the single-file listener
    rErr,       \* the error ValidateResponse(response) returned
    vstats,     \* DNSValidator.stats
    metrics,    \* metrics.Collector: the handler's counters
    cacheTTL,   \* DNSListener.config.CacheTTL, in ticks
    cleanupInterval, \* BasicCache.cleanupInterval, in ticks
    crashed,    \* a HandleRequest call has panicked
    calls,      \* history: the HandleRequest calls made and what they returned
    keyPair,    \* two queries whose cache keys are compared
    keySpares,  \* what the backing arrays of the two queries hold after them
    keyKind,    \* how the second query of keyPair differs from the first
    keys,       \* cacheKeyFromQuery of the two queries, << >> before the call
    connPending, \* the segments the TCP client has sent that have not arrived
    connAvail,  \* the bytes that have arrived on the connection, unread
    connBuffer, \* buffer of handleTCPConnection
    connPc,     \* where handleTCPConnection stands: "length", "message", "returned"
    connLength, \* length of handleTCPConnection
    connWhy,    \* history: why handleTCPConnection returned
    connFrames, \* history: the payloads the TCP client framed and sent
    netLog,     \* history: the requests the server handled and what it wrote
    requestCh,  \* Processor.requestCh: the requests queued for the workers
    poolDone,   \* Processor.ctx is cancelled
    poolErrors, \* the errors counter of the Processor's metrics.Collector
    workers,    \* worker -> where it stands in worker() and handleRequest()
    lastProcess, \* history: the last Process call, what it found and did
    srvDone,    \* Server.ctx is cancelled
    callerDone, \* the context handed to Server.Start is done
    srvConn,    \* "udp": s.udpConn is set, "tcp": s.tcpListener is set
    srvSock,    \* the socket of each listener: "none", "open" or "closed"
    srvPc,      \* where startUDP and startTCP stand
    errChan,    \* errChan of Start
    wg,         \* the counter of Server.wg
    stopPc,     \* where Stop stands
    startPc,    \* where Start stands: "waiting", "nil" or "err" once returned
    accepted,   \* history: the datagrams and connections handed to goroutines
    cliArgs,    \* os.Args of the process
    cliPc,      \* where runCommand stands: "start", "select", "exited"
    exitCode,   \* the code the process exited with, -1 while it runs
    sigChan,    \* sigChan of runCommand: the signals delivered, not yet received
    runPc,      \* the goroutine of dns_listener.Run: "none", "new", "failed", "started"
    lsnSock,    \* the sockets of listenUDP and listenTCP: "none", "open", "failed"
    logFile,    \* DNSListener.LogFile: "none", "open" or "closed"
    logRecords, \* the number of records written to LogFile and synced
    legacyCh,   \* DNSListener.requestCh of the single-file listener
    requests,   \* history: request -> protocol, data and what became of it
    legacyCache, \* dnsCache.entries: the keys cached
    config,     \* the *Config handed to ValidateConfig
    cfgPc,      \* "loaded" before ValidateConfig, "validated" after it
    cfgErrors,  \* ValidationError.Errors: the fields reported, in order
    portsInUse, \* the ports on which DialTimeout finds a server
    reqPool,    \* requestPool.pool: the request structs put back
    handling,   \* worker -> its position in handleRequest, the request,
                \* the pooled struct and the bytes handed to the handler
    handled,    \* history: the number of requests taken so far
    udpBuffer,  \* startUDP: buffer, shared by the loop and its goroutines
    udpRead,    \* the ReadFromUDP in progress: its datagram and sender
    udpTasks,   \* the goroutines started: datagram sent, n, addr, bytes seen
    tcpConns,   \* accepted connection -> the position of its handler, the
                \* chunks the client has sent and those unread, the client
    tcpDone,    \* s.ctx is cancelled
    cacheKind,  \* which cache the goroutines share
    shardItems, \* shard.items / c.items / c.entries: key -> entry
    getters,    \* goroutine -> its position in Get, the entry it read, its result
    setCount,   \* history: the number of Set calls made
    rlConfig,   \* the rate and burst of the limiter the goroutines share
    rlMu,       \* rl.mu: the goroutine that holds it, 0 when it is free
    rlLimits,   \* rl.limits of that limiter
    rlCounters, \* rl.stats of that limiter
    allowers,   \* goroutine -> its position in Allow, its key, the bucket it read
    allowDone,  \* history: the Allow calls that returned, in order
    flFile,     \* FileLogger.file: the number of the handle it holds
    flState,    \* that handle: "good", "bad" (writes fail) or "closed"
    flWritten,  \* the records in the log file, by kind
    flLast,     \* history: the last logger call, whether its write failed,
                \* the handle it wrote to
    nlConfig,   \* the *config.Config handed to NewDNSListener
    nlLoaded,   \* history: that configuration as the loader made it
    nlListener, \* what NewDNSListener returned
    bgItems,    \* concurrent Gets: the keys of c.items
    bgStats,    \* c.stats.Hits and c.stats.Misses
    bgGetters,  \* goroutine -> where it is in BasicCache.Get
    bgDone      \* history: the number of Get calls that returned

limiterVars == <<rate, burst, limits, rlStats, cleanupEvery, lastAllow, grants>>

cacheVars == <<items, currentSize, maxSize, defaultTTL, cacheStats, stuck,
               recency, lastCall, setInfo, cacheOps>>

codecVars == <<msg, pc, qErr, response, legacy, rErr>>

handlerVars == <<vstats, metrics, cacheTTL, cleanupInterval, crashed, calls>>

keyVars == <<keyPair, keySpares, keyKind, keys>>

connVars == <<connPending, connAvail, connBuffer, connPc, connLength, connWhy,
              connFrames, netLog>>

poolVars == <<requestCh, poolDone, poolErrors, workers, lastProcess>>

srvVars == <<srvDone, callerDone, srvConn, srvSock, srvPc, errChan, wg, stopPc,
             startPc, accepted>>

cliVars == <<cliArgs, cliPc, exitCode, sigChan, runPc, lsnSock, logFile, logRecords,
             legacyCh, requests, legacyCache>>

cfgVars == <<config, cfgPc, cfgErrors, portsInUse>>

\* the parts added after the server
dataVars == <<reqPool, handling, handled>>

udpVars == <<udpBuffer, udpRead, udpTasks>>

tcpVars == <<tcpConns, tcpDone>>

raceVars == <<cacheKind, shardItems, getters, setCount>>

\* the parts about concurrent calls, the logger and the loaded configuration
allowVars == <<rlConfig, rlMu, rlLimits, rlCounters, allowers, allowDone>>

logVars == <<flFile, flState, flWritten, flLast>>

nlVars == <<nlConfig, nlLoaded, nlListener>>

bgVars == <<bgItems, bgStats, bgGetters, bgDone>>

lastVars == <<raceVars, allowVars, logVars, nlVars, bgVars>>

laterVars == <<cliVars, cfgVars, dataVars, udpVars, tcpVars, lastVars>>

extraVars == <<keyVars, connVars, poolVars, srvVars, laterVars>>

vars == <<now, limiterVars, cacheVars, codecVars, handlerVars, extraVars>>

None == [none |-> TRUE]

(***************************************************************************)
(* Bounds of the model.                                                    *)
(***************************************************************************)
\* the clock stops at MaxTime ticks
MaxTime == 4
\* no more than MaxCalls Allow calls are made in one run
MaxCalls == 5

\* sub-token resolution: one token is Unit model units
Unit == 2

\* client addresses used as limiter keys
ClientKeys == {"10.0.0.1:5353", "10.0.0.2:5353"}

Min(a, b) == IF a < b THEN a ELSE b

(***************************************************************************)
(* package ratelimit                                                       *)
(***************************************************************************)
\* cleanupEvery: 5 * time.Minute, in ticks of the limiter's specification
\* (one tick is 150 s there)
CleanupEvery == 2

\* (rate, burst) pairs handed to ratelimit.New; rate in 1/Unit tokens per tick
LimiterConfigs ==
    { [rate |-> 1, burst |-> 1],
      [rate |-> 1, burst |-> 2],
      [rate |-> 3, burst |-> 2] }

\* bucket{tokens: float64(rl.burst), lastCheck: now}
NewBucket(t, B) == [tokens |-> B * Unit, lastCheck |-> t]

\* a refill that forgets the cap at burst
RefillNoCap(b, t, r, B) ==
    [tokens |-> b.tokens + (t - b.lastCheck) * r, lastCheck |-> t]

\* elapsed := now.Sub(b.lastCheck).Seconds(); b.tokens += elapsed * rl.rate;
\* if b.tokens > burst { b.tokens = burst }; b.lastCheck = now
Refill(b, t, r, B) ==
    LET raw == b.tokens + (t - b.lastCheck) * r
    IN  [tokens |-> IF raw > B * Unit THEN B * Unit ELSE raw, lastCheck |-> t]

\* a test that lets a request through on any positive fraction of a token
HasTokenAnyFraction(b) == b.tokens > 0

\* if b.tokens >= 1
HasToken(b) == b.tokens >= Unit

\* a grant that takes no token
KeepAllTokens(b) == b

\* b.tokens--
TakeToken(b) == [b EXCEPT !.tokens = @ - Unit]

\* the bucket Allow works on after the lookup/creation and the refill
AllowBucket(lim, key, t, r, B) ==
    Refill(IF key \in DOMAIN lim THEN lim[key] ELSE NewBucket(t, B), t, r, B)

\* the value Allow returns
AllowResult(lim, key, t, r, B) == HasToken(AllowBucket(lim, key, t, r, B))

\* rl.limits after Allow
AllowLimits(lim, key, t, r, B) ==
    LET b == AllowBucket(lim, key, t, r, B)
        post == IF HasToken(b) THEN TakeToken(b) ELSE b
    IN  [k \in DOMAIN lim \cup {key} |-> IF k = key THEN post ELSE lim[k]]

\* rl.stats after Allow
AllowStats(st, lim, key, t, r, B) ==
    LET ok == AllowResult(lim, key, t, r, B)
    IN  [allowed    |-> st.allowed + (IF ok THEN 1 ELSE 0),
         limited    |-> st.limited + (IF ok THEN 0 ELSE 1),
         activeKeys |-> st.activeKeys + (IF key \in DOMAIN lim THEN 0 ELSE 1)]

\* what one Allow(key) call does to the limiter
AllowCall(key) ==
    /\ limits' = AllowLimits(limits, key, now, rate, burst)
    /\ rlStats' = AllowStats(rlStats, limits, key, now, rate, burst)
    /\ lastAllow' = [key     |-> key,
                     existed |-> key \in DOMAIN limits,
                     pre     |-> IF key \in DOMAIN limits THEN limits[key] ELSE None,
                     at      |-> now,
                     ret     |-> AllowResult(limits, key, now, rate, burst)]
    /\ grants' = IF AllowResult(limits, key, now, rate, burst)
                 THEN [grants EXCEPT ![key] = Append(@, now)]
                 ELSE grants
    /\ UNCHANGED <<rate, burst, cleanupEvery>>

\* func (rl *RateLimiter) Allow(key string) bool, called on the limiter alone
Allow(key) ==
    /\ rlStats.allowed + rlStats.limited < MaxCalls
    /\ AllowCall(key)
    /\ UNCHANGED <<now, cacheVars, codecVars, handlerVars, extraVars>>

\* a sweep that also drops buckets idle for exactly cleanupEvery or less
IdleAlways(b, t, every) == TRUE

\* a sweep that also drops the buckets idle for exactly cleanupEvery
IdleAtLeast(b, t, every) == t - b.lastCheck >= every

\* now.Sub(bucket.lastCheck) > rl.cleanupEvery
Idle(b, t, every) == t - b.lastCheck > every

\* the keys one pass of the cleanup loop deletes
SweptKeys(lim, t, every) == {k \in DOMAIN lim : Idle(lim[k], t, every)}

\* one tick of func (rl *RateLimiter) cleanup(): the ticker fires every
\* cleanupEvery, the pass itself runs once the goroutine holds the lock
\* (a pass that deletes nothing changes nothing and is left out)
cleanup ==
    /\ now >= cleanupEvery
    /\ SweptKeys(limits, now, cleanupEvery) # {}
    /\ limits' = [k \in DOMAIN limits \ SweptKeys(limits, now, cleanupEvery) |-> limits[k]]
    /\ rlStats' = [rlStats EXCEPT
                      !.activeKeys = @ - Cardinality(SweptKeys(limits, now, cleanupEvery))]
    /\ UNCHANGED <<now, rate, burst, cleanupEvery, lastAllow, grants, cacheVars,
                   codecVars, handlerVars, extraVars>>

(***************************************************************************)
(* package cache: BasicCache, the cache cache.New returns and the request  *)
(* handler uses.  Keys are strings of hex digits (sequences of 0..15),     *)
(* values are byte sequences.  The per-item hit counter is never read and  *)
(* is left out.                                                            *)
(***************************************************************************)
\* no more than MaxCacheOps cache calls are made in one run
MaxCacheOps == 3
\* the clock of the cache's specification stops at MaxCacheTime ticks
MaxCacheTime == 3

\* the keys and values the cache is called with in its own specification
CacheKeys == { <<6, 1>>, <<6, 2>>, <<6, 3>> }
CacheValues == { << >>, <<7>>, <<7, 9, 9>> }
\* ttl arguments, in ticks; 0 asks for the default
CacheTTLs == {0, 1}
\* cache.Config{MaxSize, DefaultTTL} pairs handed to cache.New
CacheConfigs == { [maxSize |-> 2, defaultTTL |-> 2] }

RECURSIVE SumSizes(_, _)
\* the sum of item.size over the keys ks of the map m
SumSizes(m, ks) ==
    IF ks = {} THEN 0
    ELSE LET k == CHOOSE x \in ks : TRUE
         IN  m[k].size + SumSizes(m, ks \ {k})

\* the map m without the keys ks
Without(m, ks) == [k \in DOMAIN m \ ks |-> m[k]]

\* the sequence q without the elements in ks
SeqWithout(q, ks) == SelectSeq(q, LAMBDA x : x \notin ks)

\* an expiry test that is one tick late
ExpiredLate(item, t) == t > item.expiration + 1

\* time.Now().After(item.expiration)
Expired(item, t) == t > item.expiration

\* if ttl <= 0 { ttl = c.defaultTTL }
EffectiveTTL(ttl, dflt) == IF ttl <= 0 THEN dflt ELSE ttl

\* the values oldestKey can end with after the loop over c.items, whose
\* order Go randomizes: "" for an empty map, else a key of least expiration
OldestKeys(m) ==
    IF DOMAIN m = {} THEN { << >> }
    ELSE {k \in DOMAIN m : \A j \in DOMAIN m : m[k].expiration <= m[j].expiration}

\* the capacity test of Set: it compares the number of items with maxSize
AtCapacity(m, max) == Cardinality(DOMAIN m) >= max

\* the key Set drops at capacity when the loop ends with oldestKey = victim
\* (if oldestKey != "" { delete(c.items, oldestKey) }); currentSize is kept
CapacityVictims(m, max, victim) ==
    IF AtCapacity(m, max) /\ victim # << >> /\ victim \in DOMAIN m THEN {victim} ELSE {}

\* the keys the first loop of cleanup() deletes
ExpiredKeys(m, t) == {k \in DOMAIN m : Expired(m[k], t)}

\* the history of Sets without the keys whose entries were removed
Forget(info, ks) == [k \in DOMAIN info |-> IF k \in ks THEN None ELSE info[k]]

\* item, exists := c.items[key]; !exists || time.Now().After(item.expiration)
\* is a miss
GetHit(m, key, t) == key \in DOMAIN m /\ ~Expired(m[key], t)

\* what one Get(key) call does to the cache
GetCall(key) ==
    /\ LET hit == GetHit(items, key, now)
       IN  /\ cacheStats' = IF hit THEN [cacheStats EXCEPT !.Hits = @ + 1]
                                   ELSE [cacheStats EXCEPT !.Misses = @ + 1]
           /\ lastCall' = [op    |-> "Get",
                           key   |-> key,
                           ok    |-> hit,
                           value |-> IF hit THEN items[key].value ELSE None,
                           at    |-> now,
                           found |-> IF key \in DOMAIN items THEN items[key] ELSE None,
                           set   |-> IF key \in DOMAIN setInfo
                                     THEN setInfo[key] ELSE None]
           /\ recency' = IF hit THEN Append(SeqWithout(recency, {key}), key) ELSE recency
    /\ UNCHANGED <<items, currentSize, maxSize, defaultTTL, stuck, setInfo>>

\* func (c *BasicCache) Get(key string) ([]byte, bool), called on the cache
\* alone
Get(key) ==
    /\ stuck = ""
    /\ cacheOps < MaxCacheOps
    /\ cacheOps' = cacheOps + 1
    /\ GetCall(key)

\* func (c *BasicCache) cleanup(), entered with c.mu held, on the map m and
\* the byte count size: the expired entries go, then
\* for c.currentSize > c.maxSize { c.evictOldest() } runs; evictOldest calls
\* c.Delete, which locks c.mu again and so never returns, or finds
\* oldestKey = "" and deletes nothing, so that the loop never ends
CleanupEffect(m, size, stats, victim) ==
    LET gone  == ExpiredKeys(m, now)
        left  == Without(m, gone)
        bytes == size - SumSizes(m, gone)
    IN  /\ victim \in OldestKeys(left)
        /\ items' = left
        /\ currentSize' = bytes
        /\ cacheStats' = [stats EXCEPT
                             !.Evictions = @ + 2 * Cardinality(gone),
                             !.evictions = @ + Cardinality(gone)]
        /\ stuck' = IF bytes > maxSize
                    THEN (IF victim # << >> THEN "deadlock" ELSE "spin")
                    ELSE ""

\* what one Cleanup() call does to the cache
CleanupCall ==
    /\ \E victim \in OldestKeys(Without(items, ExpiredKeys(items, now))) :
          CleanupEffect(items, currentSize, cacheStats, victim)
    /\ recency' = SeqWithout(recency, ExpiredKeys(items, now))
    /\ setInfo' = Forget(setInfo, ExpiredKeys(items, now))
    /\ UNCHANGED <<maxSize, defaultTTL, lastCall>>

\* func (c *BasicCache) Cleanup(), called on the cache alone
Cleanup ==
    /\ stuck = ""
    /\ cacheOps < MaxCacheOps
    /\ cacheOps' = cacheOps + 1
    /\ CleanupCall

\* func (c *BasicCache) Delete(key string)
Delete(key) ==
    /\ stuck = ""
    /\ cacheOps < MaxCacheOps
    /\ cacheOps' = cacheOps + 1
    /\ items' = Without(items, {key})
    /\ currentSize' = currentSize - (IF key \in DOMAIN items THEN items[key].size ELSE 0)
    /\ recency' = SeqWithout(recency, {key})
    /\ setInfo' = Forget(setInfo, {key})
    /\ UNCHANGED <<maxSize, defaultTTL, cacheStats, stuck, lastCall>>

\* c.items[key] = &basicCacheItem{value, time.Now().Add(ttl), size, 0}
Stored(m, key, value, ttl, t, dflt) ==
    [k \in DOMAIN m \cup {key} |->
        IF k = key
        THEN [value |-> value, expiration |-> t + EffectiveTTL(ttl, dflt),
              size |-> Len(value)]
        ELSE m[k]]

\* what one Set(key, value, ttl) call, with its trailing c.cleanup(), does
\* to the cache whose counters stand at stats
SetEffect(stats, key, value, ttl) ==
    \E capVictim \in OldestKeys(items) :
        LET dropped == CapacityVictims(items, maxSize, capVictim)
            bytes   == currentSize
                       - (IF key \in DOMAIN items THEN items[key].size ELSE 0)
                       + Len(value)
            stored  == Stored(Without(items, dropped), key, value, ttl, now, defaultTTL)
            gone    == ExpiredKeys(stored, now)
        IN  /\ \E victim \in OldestKeys(Without(stored, gone)) :
                 CleanupEffect(stored, bytes,
                               [stats EXCEPT
                                   !.Evictions = @ + Cardinality(dropped),
                                   !.evictions = @ + Cardinality(dropped)],
                               victim)
            /\ recency' = Append(SeqWithout(recency, dropped \cup gone \cup {key}), key)
            /\ lastCall' = [op      |-> "Set",
                            key     |-> key,
                            value   |-> value,
                            at      |-> now,
                            evicted |-> dropped \ {key},
                            kept    |-> (DOMAIN items \ (dropped \cup gone)) \ {key},
                            order   |-> recency]
            /\ setInfo' = [k \in DOMAIN setInfo \cup {key} |->
                              IF k = key THEN [at |-> now, ttl |-> ttl]
                              ELSE Forget(setInfo, dropped \cup gone)[k]]

\* func (c *BasicCache) Set(key string, value []byte, ttl time.Duration),
\* called on the cache alone
Set(key, value, ttl) ==
    /\ stuck = ""
    /\ cacheOps < MaxCacheOps
    /\ cacheOps' = cacheOps + 1
    /\ SetEffect(cacheStats, key, value, ttl)
    /\ UNCHANGED <<maxSize, defaultTTL>>

\* cache.New(cfg)
NewCache(max, dflt) ==
    /\ items = << >>
    /\ currentSize = 0
    /\ maxSize = max
    /\ defaultTTL = dflt
    /\ cacheStats = [Hits |-> 0, Misses |-> 0, Evictions |-> 0, evictions |-> 0]
    /\ stuck = ""
    /\ recency = << >>
    /\ lastCall = None
    /\ cacheOps = 0

\* the cache of a specification that makes no cache call
CacheUnused ==
    /\ NewCache(1, 1)
    /\ setInfo = << >>

(***************************************************************************)
(* DNS messages are sequences of bytes (0..255); data[i] of the code is    *)
(* d[i + 1] here.  A nil slice is the empty sequence: the functions that   *)
(* return nil never return an empty non-nil slice.                         *)
(***************************************************************************)
Nil == << >>

\* data[i]
At(d, i) == d[i + 1]

\* a byte left as it is
KeepByte(b) == b

\* b | 0x80 on a byte
Or80(b) == IF b >= 128 THEN b ELSE b + 128

\* b & 0x80 on a byte
And80(b) == IF b >= 128 THEN 128 ELSE 0

\* int(data[4])<<8 | int(data[5])
QuestionCount(d) == At(d, 4) * 256 + At(d, 5)

\* the sequence d with the byte at index i of the code set to b
WithByte(d, i, b) == [d EXCEPT ![i + 1] = b]

\* the message q with another transaction id
OtherId(q) ==
    IF Len(q) < 2 THEN q
    ELSE WithByte(WithByte(q, 0, 255 - At(q, 0)), 1, At(q, 1))

(***************************************************************************)
(* package validator                                                       *)
(***************************************************************************)
ErrMessageTooShort == "DNS message too short"
ErrInvalidQuestionCount == "invalid question count"
ErrMalformedQuestion == "malformed question section"
ErrUnsupportedOpcode == "unsupported opcode"
ErrResponseBit == "response bit not set"

\* a basic check that forgets the question count
validateBasicsLengthOnly(d) ==
    IF Len(d) < 12 THEN ErrMessageTooShort ELSE ""

\* func (v *DNSValidator) validateBasics(data []byte) error
validateBasics(d) ==
    IF Len(d) < 12 THEN ErrMessageTooShort
    ELSE IF QuestionCount(d) = 0 THEN ErrInvalidQuestionCount
    ELSE ""

RECURSIVE ParseName(_, _)
\* the inner loop of validateQuestions, entered at offset: the offset it
\* leaves, and whether it returned ErrMalformedQuestion
ParseName(d, offset) ==
    IF offset >= Len(d) THEN [offset |-> offset, bad |-> FALSE]
    ELSE IF At(d, offset) = 0 THEN [offset |-> offset + 1, bad |-> FALSE]
    ELSE IF offset + At(d, offset) + 1 >= Len(d)
         THEN [offset |-> offset + At(d, offset) + 1, bad |-> TRUE]
    ELSE ParseName(d, offset + At(d, offset) + 1)

RECURSIVE ValidateQuestionsFrom(_, _, _)
\* the outer loop of validateQuestions with left questions to go
ValidateQuestionsFrom(d, offset, left) ==
    IF left = 0 THEN ""
    ELSE LET name == ParseName(d, offset)
         IN  IF name.bad THEN ErrMalformedQuestion
             ELSE IF name.offset + 4 > Len(d) THEN ErrMalformedQuestion
             ELSE ValidateQuestionsFrom(d, name.offset + 4, left - 1)

\* func (v *DNSValidator) validateQuestions(data []byte) error
validateQuestions(d) == ValidateQuestionsFrom(d, 12, QuestionCount(d))

\* opcode := (data[2] >> 3) & 0x0F
Opcode(d) == (At(d, 2) \div 8) % 16

\* func (v *DNSValidator) ValidateQuery(data []byte) error
ValidateQuery(d) ==
    IF validateBasics(d) # "" THEN validateBasics(d)
    ELSE IF Opcode(d) # 0 THEN ErrUnsupportedOpcode
    ELSE validateQuestions(d)

\* func (v *DNSValidator) ValidateResponse(data []byte) error
ValidateResponse(d) ==
    IF validateBasics(d) # "" THEN validateBasics(d)
    ELSE IF And80(At(d, 2)) = 0 THEN ErrResponseBit
    ELSE ""

\* v.stats after ValidateQuery(d)
QueryStats(st, d) ==
    [st EXCEPT !.TotalValidated = @ + 1,
               !.InvalidQueries = @ + (IF ValidateQuery(d) # "" THEN 1 ELSE 0)]

\* v.stats after ValidateResponse(d)
ResponseStats(st, d) ==
    [st EXCEPT !.InvalidResponses = @ + (IF ValidateResponse(d) # "" THEN 1 ELSE 0)]

\* validator.New()
NewValidator == [TotalValidated |-> 0, InvalidQueries |-> 0, InvalidResponses |-> 0]

(***************************************************************************)
(* The response synthesizers: protocol.CreateDNSResponse, which the        *)
(* request handler calls, and createDNSResponse of the single-file          *)
(* listener (dns_listener/main.go and dns_listener/protocol.go).           *)
(***************************************************************************)
\* a synthesizer that stamps a fixed transaction id on the response
CreateDNSResponseZeroId(query) ==
    IF Len(query) < 12 THEN Nil
    ELSE WithByte(WithByte(WithByte(query, 0, 0), 1, 0), 2, Or80(At(query, 2)))

\* func CreateDNSResponse(query []byte, clientAddr string) []byte
CreateDNSResponse(query) ==
    IF Len(query) < 12 THEN Nil
    ELSE WithByte(query, 2, Or80(At(query, 2)))

\* the answer record createDNSResponse appends: name pointer C0 0C, type A,
\* class IN, TTL 300, RDLENGTH 4, 127.0.0.1
AnswerRecord == <<192, 12, 0, 1, 0, 1, 0, 0, 1, 44, 0, 4, 127, 0, 0, 1>>

\* func createDNSResponse(request []byte, clientIP string) []byte
createDNSResponse(request) ==
    IF Len(request) < 12 THEN << >>
    ELSE WithByte(WithByte(WithByte(WithByte(request, 2, 129), 3, 128), 6, 0), 7, 1)
         \o AnswerRecord

(***************************************************************************)
(* The messages the validator and the synthesizers are run on: a header    *)
(* put together from ids, flag bytes and counts, a question section (well  *)
(* formed, truncated or with a label that overruns the message) and        *)
(* trailing bytes, and messages shorter than a header.                     *)
(***************************************************************************)
Ids == { <<0, 1>>, <<203, 23>> }
\* RD, none, RD+AD, opcode 1 with RD, a response's QR+RD and RA
FlagBytes == { <<1, 0>>, <<0, 0>>, <<1, 32>>, <<9, 0>>, <<129, 128>> }
QDCounts == { <<0, 0>>, <<0, 1>>, <<0, 2>> }
\* ANCOUNT, NSCOUNT, ARCOUNT
OtherCounts == { <<0, 0, 0, 0, 0, 0>>, <<0, 2, 0, 0, 0, 1>> }
\* example.com A IN
ExampleQuestion ==
    <<7, 101, 120, 97, 109, 112, 108, 101, 3, 99, 111, 109, 0, 0, 1, 0, 1>>
\* the root name, SOA IN
RootQuestion == <<0, 0, 6, 0, 1>>
\* a question cut after the first byte of its type
CutQuestion == <<1, 97, 0, 0>>
\* a label that claims more bytes than the message has
OverrunQuestion == <<3, 97>>
\* a label that fills the rest of the message, with no zero byte after it
UnendedQuestion == <<1, 97>>
QuestionSections ==
    { << >>, ExampleQuestion, RootQuestion, CutQuestion, OverrunQuestion,
      UnendedQuestion }
\* an OPT pseudo-record
OptRecord == <<0, 0, 41, 16, 0, 0, 0, 0, 0, 0, 0>>
Trailers == { << >>, OptRecord }
ShortMessages == { << >>, <<0, 1, 1, 0>>, RootQuestion }

CodecMessages ==
    { id \o fl \o qd \o oc \o qs \o tr :
        id \in Ids, fl \in FlagBytes, qd \in QDCounts, oc \in OtherCounts,
        qs \in QuestionSections, tr \in Trailers }
    \cup ShortMessages

\* the query of scenario S1 of the specification and of TestRateLimiting
ExampleQuery == <<0, 1>> \o <<1, 0>> \o <<0, 1>> \o <<0, 0, 0, 0, 0, 0>> \o ExampleQuestion

\* v.ValidateQuery(msg)
RunValidateQuery ==
    /\ pc = "start"
    /\ qErr' = ValidateQuery(msg)
    /\ pc' = "validated"
    /\ UNCHANGED <<msg, response, legacy, rErr>>

\* protocol.CreateDNSResponse(msg, addr)
RunCreateDNSResponse ==
    /\ pc = "validated"
    /\ response' = CreateDNSResponse(msg)
    /\ pc' = "synthesized"
    /\ UNCHANGED <<msg, qErr, legacy, rErr>>

\* createDNSResponse(msg, clientIP)
RunLegacyCreateDNSResponse ==
    /\ pc = "synthesized"
    /\ legacy' = createDNSResponse(msg)
    /\ pc' = "answered"
    /\ UNCHANGED <<msg, qErr, response, rErr>>

\* v.ValidateResponse(response)
RunValidateResponse ==
    /\ pc = "answered"
    /\ rErr' = ValidateResponse(response)
    /\ pc' = "checked"
    /\ UNCHANGED <<msg, qErr, response, legacy>>

\* the codec of a specification that runs on no message
CodecUnused ==
    /\ msg = Nil
    /\ pc = "unused"
    /\ qErr = ""
    /\ response = Nil
    /\ legacy = Nil
    /\ rErr = ""

(***************************************************************************)
(* DNSListener: the request handler with its limiter, cache, validator and *)
(* counters.  In its specification one tick is 1/Unit second, so that a    *)
(* rate of r tokens per second is r of the limiter's units per tick.       *)
(***************************************************************************)
\* no more than MaxRequests HandleRequest calls are made in one run
MaxRequests == 3
\* the clock of the handler's specification stops one tick after one second
MaxHandlerTime == Unit + 1

\* cfg.RateLimit (per second, which is units per tick) and cfg.RateBurst:
\* one request per second and no burst
HandlerConfigs == { [rate |-> 1, burst |-> 1] }

\* a query with the question of ExampleQuery, another id and opcode 1
OpcodeQuery == <<203, 23>> \o <<9, 0>> \o <<0, 1>> \o <<0, 0, 0, 0, 0, 0>> \o ExampleQuestion
\* a query whose question is cut short
CutQuery == <<0, 1>> \o <<1, 0>> \o <<0, 1>> \o <<0, 0, 0, 0, 0, 0>> \o CutQuestion
\* the messages HandleRequest is called with
HandlerQueries == { ExampleQuery, OpcodeQuery, CutQuery }
\* what the backing array of the data slice holds after len(data): nothing
\* (cap = len) or bytes left from an earlier read
Spares == { << >>, <<0, 0, 0>> }

\* hex.EncodeToString(bytes), as a sequence of hex digits 0..15: two digits
\* for each byte, the high one first
Hex(bytes) ==
    [i \in 1..(2 * Len(bytes)) |->
        IF i % 2 = 1 THEN bytes[(i + 1) \div 2] \div 16 ELSE bytes[i \div 2] % 16]

RECURSIVE SkipName(_, _)
\* the inner loop of cacheKeyFromQuery entered at pos: the pos it leaves
SkipName(query, pos) ==
    IF pos >= Len(query) THEN pos
    ELSE IF At(query, pos) = 0 THEN pos + 1
    ELSE SkipName(query, pos + At(query, pos) + 1)

RECURSIVE QuestionsEnd(_, _, _)
\* the outer loop of cacheKeyFromQuery with left questions to go
QuestionsEnd(query, pos, left) ==
    IF left = 0 \/ pos >= Len(query) THEN pos
    ELSE QuestionsEnd(query, SkipName(query, pos) + 4, left - 1)

\* func cacheKeyFromQuery(query []byte) string, for a slice whose backing
\* array holds spare after len(query): query[12:pos] panics when pos is
\* beyond the capacity and reads the spare bytes when it is only beyond len
cacheKeyFromQuery(query, spare) ==
    IF Len(query) < 12 THEN [panic |-> FALSE, key |-> Hex(query)]
    ELSE LET pos == QuestionsEnd(query, 12, QuestionCount(query))
         IN  IF pos > Len(query) + Len(spare)
             THEN [panic |-> TRUE, key |-> << >>]
             ELSE [panic |-> FALSE, key |-> Hex(SubSeq(query \o spare, 13, pos))]

\* the cache keys the handler can come to use
HandlerKeys ==
    { cacheKeyFromQuery(q, sp).key : q \in HandlerQueries, sp \in Spares }

\* cfg.RateLimit (units per tick) and cfg.RateBurst of TestDNSListenerCache
RepeatConfigs == { [rate |-> 100, burst |-> 10] }
\* the example query, the same query under another transaction id, and the
\* same question in a query with opcode 1
RepeatQueries == { ExampleQuery, OtherId(ExampleQuery), OpcodeQuery }
RepeatClients == { "10.0.0.1:5353" }
\* the cache keys of these queries
RepeatKeys == { cacheKeyFromQuery(q, << >>).key : q \in RepeatQueries }

\* a handler that answers a cache hit with the cached bytes
HandleResultReplay(data, allowed, k, hit) ==
    IF hit THEN [resp |-> items[k.key].value, err |-> ""]
    ELSE [resp |-> CreateDNSResponse(data), err |-> ""]

\* what HandleRequest(data, addr, _) returns when the limiter answered
\* allowed, the key came out as k and the cache lookup as hit
HandleResult(data, allowed, k, hit) ==
    LET fresh == CreateDNSResponse(data)
    IN  IF ~allowed THEN [resp |-> Nil, err |-> "rate limit exceeded"]
        ELSE IF k.panic THEN [resp |-> Nil, err |-> "panic"]
        ELSE IF hit /\ fresh # Nil THEN [resp |-> fresh, err |-> ""]
        ELSE IF ValidateQuery(data) # "" THEN [resp |-> Nil, err |-> "invalid query"]
        ELSE IF fresh = Nil THEN [resp |-> Nil, err |-> "failed to create response"]
        ELSE IF ValidateResponse(fresh) # ""
             THEN [resp |-> Nil, err |-> "invalid response"]
        ELSE [resp |-> fresh, err |-> ""]

\* func (d *DNSListener) HandleRequest(data []byte, addr net.Addr, _ string):
\* what a call does to the listener
HandleCall(data, spare, addr) ==
    /\ ~crashed
    /\ stuck = ""
    /\ Len(calls) < MaxRequests
    /\ AllowCall(addr)
    /\ LET allowed == AllowResult(limits, addr, now, rate, burst)
           k       == cacheKeyFromQuery(data, spare)
           looked  == allowed /\ ~k.panic
           hit     == looked /\ GetHit(items, k.key, now)
           fresh   == CreateDNSResponse(data)
           served  == hit /\ fresh # Nil
           result  == HandleResult(data, allowed, k, hit)
           checked == looked /\ ~served
       IN  /\ calls' = Append(calls, [addr    |-> addr,
                                      data    |-> data,
                                      at      |-> now,
                                      resp    |-> result.resp,
                                      err     |-> result.err,
                                      limited |-> rlStats'.limited,
                                      hits    |-> cacheStats.Hits
                                                  + (IF hit THEN 1 ELSE 0),
                                      misses  |-> cacheStats.Misses
                                                  + (IF looked /\ ~hit
                                                     THEN 1 ELSE 0)])
           /\ crashed' = (allowed /\ k.panic)
           /\ metrics' =
                 [totalRequests |-> metrics.totalRequests + (IF allowed THEN 1 ELSE 0),
                  cacheHits     |-> metrics.cacheHits + (IF hit THEN 1 ELSE 0),
                  cacheMisses   |-> metrics.cacheMisses + (IF checked THEN 1 ELSE 0),
                  errors        |-> metrics.errors
                                    + (IF ~allowed \/ (checked /\ result.err # "")
                                       THEN 1 ELSE 0)]
           /\ vstats' =
                 IF ~checked THEN vstats
                 ELSE IF ValidateQuery(data) # "" \/ fresh = Nil
                      THEN QueryStats(vstats, data)
                 ELSE ResponseStats(QueryStats(vstats, data), fresh)
           /\ IF ~looked
              THEN UNCHANGED cacheVars
              ELSE IF served \/ result.err # ""
                   THEN GetCall(k.key) /\ UNCHANGED cacheOps
              ELSE /\ SetEffect([cacheStats EXCEPT !.Misses = @ + 1],
                                k.key, fresh, cacheTTL)
                   /\ UNCHANGED <<maxSize, defaultTTL, cacheOps>>
    /\ UNCHANGED <<now, codecVars, cacheTTL, cleanupInterval>>

\* HandleRequest called on the listener directly, as the tests call it
HandleRequest(data, spare, addr) ==
    /\ HandleCall(data, spare, addr)
    /\ UNCHANGED extraVars

\* one pass of func (c *BasicCache) startCleanup(), the goroutine cache.New
\* starts: the ticker fires every cleanupInterval and the pass calls
\* c.Cleanup() (a pass that finds nothing expired and the cache within its
\* size changes nothing and is left out)
startCleanup ==
    /\ ~crashed
    /\ stuck = ""
    /\ cleanupInterval > 0
    /\ now >= cleanupInterval
    /\ ExpiredKeys(items, now) # {} \/ currentSize > maxSize
    /\ CleanupCall
    /\ UNCHANGED <<now, cacheOps, limiterVars, codecVars, handlerVars, extraVars>>

\* the handler of a specification that handles no request
HandlerUnused ==
    /\ vstats = NewValidator
    /\ metrics = [totalRequests |-> 0, cacheHits |-> 0, cacheMisses |-> 0, errors |-> 0]
    /\ cacheTTL = 0
    /\ cleanupInterval = 0
    /\ crashed = FALSE
    /\ calls = << >>

(***************************************************************************)
(* The cache key of two queries that differ in one respect.                *)
(***************************************************************************)
\* the ways the second query differs from the first: another transaction
\* id, an OPT record appended after the message, another question section
KeyKinds == {"id", "opt", "question"}

\* the pairs of queries compared: a message and the same message with another
\* id or with an OPT record appended, or a message made of a header and one
\* question section and the same header with another question section
KeyPairs ==
    { [kind |-> "id", a |-> q, b |-> OtherId(q)] : q \in CodecMessages \ {Nil} }
    \cup { [kind |-> "opt", a |-> q, b |-> q \o OptRecord] : q \in CodecMessages \ {Nil} }
    \cup { p \in { [kind |-> "question",
                     a |-> id \o fl \o <<0, 1>> \o oc \o qa,
                     b |-> id \o fl \o <<0, 1>> \o oc \o qb] :
                       id \in Ids, fl \in FlagBytes, oc \in OtherCounts,
                       qa \in {ExampleQuestion, RootQuestion},
                       qb \in {ExampleQuestion, RootQuestion, CutQuestion} } :
             p.a # p.b }

\* key := cacheKeyFromQuery(query) on both queries
RunCacheKeys ==
    /\ keys = << >>
    /\ keyPair # << >>
    /\ keys' = <<cacheKeyFromQuery(keyPair[1], keySpares[1]),
                 cacheKeyFromQuery(keyPair[2], keySpares[2])>>
    /\ UNCHANGED <<keyPair, keySpares, keyKind>>

\* no pair of queries is compared
KeysUnused ==
    /\ keyPair = << >>
    /\ keySpares = << >>
    /\ keyKind = ""
    /\ keys = << >>

(***************************************************************************)
(* network.Server: one TCP connection served by handleTCPConnection and    *)
(* the datagrams served by handleUDPRequest.  A conn.Read(p) returns the   *)
(* bytes that have arrived, at most len(p) of them, and waits while none   *)
(* has; the client closes the connection after its last byte.              *)
(***************************************************************************)
\* buffer := make([]byte, 512)
BufferSize == 512
\* no more than MaxDatagrams datagrams arrive in one run
MaxDatagrams == 1

\* n zero bytes
Zeros(n) == [i \in 1..n |-> 0]
\* the message q followed by zero bytes, n bytes in all
Padded(q, n) == q \o Zeros(n - Len(q))
\* a header with QDCOUNT = 1 and no question
HeaderOnlyQuery == <<0, 7>> \o <<1, 0>> \o <<0, 1>> \o <<0, 0, 0, 0, 0, 0>>
\* the payloads the TCP client frames
ConnPayloads ==
    { HeaderOnlyQuery, ExampleQuery, Padded(ExampleQuery, BufferSize - 2),
      Padded(ExampleQuery, BufferSize) }
\* the client sends one framed message, or two of which the second is short
ConnScripts ==
    { <<p>> : p \in ConnPayloads }
    \cup { <<p, q>> : p \in ConnPayloads, q \in {HeaderOnlyQuery, ExampleQuery} }

\* a payload behind its 2-byte big-endian length
Framed(p) == <<(Len(p) \div 256) % 256, Len(p) % 256>> \o p

RECURSIVE Stream(_)
\* the bytes of the framed payloads fs, in order
Stream(fs) == IF fs = << >> THEN << >> ELSE Framed(Head(fs)) \o Stream(Tail(fs))

\* the segments the stream of fs arrives in: all at once, or cut in two within
\* the first length prefix, after the first 14 bytes or after the first frame
Segmentations(fs) ==
    LET bytes == Stream(fs)
    IN  { <<bytes>> }
        \cup { <<SubSeq(bytes, 1, c), SubSeq(bytes, c + 1, Len(bytes))>> :
                  c \in { x \in {1, 14, Len(fs[1]) + 2} : x < Len(bytes) } }

\* conn.RemoteAddr() of the connection, and the client that sends datagrams
ConnClient == "10.0.0.1:5353"
UdpClient == "10.0.0.2:5353"
\* the datagrams the UDP client sends
UdpQueries == { ExampleQuery, CutQuery }
\* what the 4096-byte buffer of startUDP holds after a datagram
UdpSpare == <<0, 0, 0>>

\* buf with bytes copied to buf[from:]
Overlay(buf, from, bytes) ==
    [i \in 1..Len(buf) |->
        IF i > from /\ i <= from + Len(bytes) THEN bytes[i - from] ELSE buf[i]]

\* a segment sent by the client arrives
Deliver ==
    /\ connPending # << >>
    /\ connAvail' = connAvail \o Head(connPending)
    /\ connPending' = Tail(connPending)
    /\ UNCHANGED <<connBuffer, connPc, connLength, connWhy, connFrames, netLog>>
    /\ UNCHANGED <<now, limiterVars, cacheVars, codecVars, handlerVars, keyVars, poolVars, srvVars, laterVars>>

\* handleTCPConnection, from the top of the loop to the second Read:
\* conn.Read(buffer[:2]), length := int(buffer[0])<<8 | int(buffer[1]),
\* if length > len(buffer)-2 { return }
ReadLength ==
    /\ ~crashed
    /\ connPc = "length"
    /\ connAvail # << >> \/ connPending = << >>
    /\ IF connAvail = << >>
       THEN /\ connPc' = "returned"
            /\ connWhy' = "read error"
            /\ UNCHANGED <<connAvail, connBuffer, connLength>>
       ELSE LET n      == Min(2, Len(connAvail))
                buf    == Overlay(connBuffer, 0, SubSeq(connAvail, 1, n))
                length == buf[1] * 256 + buf[2]
            IN  /\ connAvail' = SubSeq(connAvail, n + 1, Len(connAvail))
                /\ connBuffer' = buf
                /\ connLength' = length
                /\ IF length > BufferSize - 2
                   THEN connPc' = "returned" /\ connWhy' = "too large"
                   ELSE connPc' = "message" /\ UNCHANGED connWhy
    /\ UNCHANGED <<connPending, connFrames, netLog>>
    /\ UNCHANGED <<now, limiterVars, cacheVars, codecVars, handlerVars, keyVars, poolVars, srvVars, laterVars>>

\* a connection handler that answers an error with an empty message
TcpWritesEmptyOnError(r) ==
    << <<(Len(r.resp) \div 256) % 256, Len(r.resp) % 256>>, r.resp >>

\* what handleTCPConnection writes for a handler result: nothing on an error
\* (continue), else conn.Write of the two length bytes and conn.Write(response)
TcpWrites(r) ==
    IF r.err # "" THEN << >>
    ELSE << <<(Len(r.resp) \div 256) % 256, Len(r.resp) % 256>>, r.resp >>

\* handleTCPConnection, from the second Read to the end of the loop body:
\* conn.Read(buffer[2 : length+2]), s.handler.HandleRequest(buffer[2:length+2],
\* conn.RemoteAddr(), "TCP") and the two writes
ReadMessage ==
    /\ ~crashed
    /\ connPc = "message"
    /\ connLength = 0 \/ connAvail # << >> \/ connPending = << >>
    /\ IF connLength > 0 /\ connAvail = << >>
       THEN /\ connPc' = "returned"
            /\ connWhy' = "read error"
            /\ UNCHANGED <<connAvail, connBuffer, netLog>>
            /\ UNCHANGED <<now, limiterVars, cacheVars, codecVars, handlerVars>>
       ELSE LET n     == Min(connLength, Len(connAvail))
                buf   == Overlay(connBuffer, 2, SubSeq(connAvail, 1, n))
                data  == SubSeq(buf, 3, connLength + 2)
                spare == SubSeq(buf, connLength + 3, BufferSize)
            IN  /\ HandleCall(data, spare, ConnClient)
                /\ connAvail' = SubSeq(connAvail, n + 1, Len(connAvail))
                /\ connBuffer' = buf
                /\ netLog' = Append(netLog,
                                    [proto |-> "TCP",
                                     data  |-> data,
                                     got   |-> n,
                                     err   |-> calls'[Len(calls')].err,
                                     out   |-> TcpWrites(calls'[Len(calls')])])
                /\ connPc' = "length"
                /\ UNCHANGED connWhy
    /\ UNCHANGED <<connPending, connLength, connFrames, keyVars, poolVars, srvVars,
                   laterVars>>

\* func (s *Server) handleUDPRequest(data []byte, addr *net.UDPAddr): nothing
\* is sent on an error or a nil response, else one WriteToUDP(response, addr)
handleUDPRequest(data, spare, addr) ==
    /\ Cardinality({i \in DOMAIN netLog : netLog[i].proto = "UDP"}) < MaxDatagrams
    /\ HandleCall(data, spare, addr)
    /\ LET r == calls'[Len(calls')]
       IN  netLog' = Append(netLog,
                            [proto |-> "UDP",
                             data  |-> data,
                             got   |-> Len(data),
                             err   |-> r.err,
                             out   |-> IF r.err # "" \/ r.resp = Nil
                                       THEN << >> ELSE <<r.resp>>])
    /\ UNCHANGED <<connPending, connAvail, connBuffer, connPc, connLength, connWhy,
                   connFrames, keyVars, poolVars, srvVars, laterVars>>

\* no connection and no datagram is served
ConnUnused ==
    /\ connPending = << >>
    /\ connAvail = << >>
    /\ connBuffer = << >>
    /\ connPc = ""
    /\ connLength = 0
    /\ connWhy = ""
    /\ connFrames = << >>
    /\ netLog = << >>

(***************************************************************************)
(* package processor: the worker pool.  Process offers a request to the    *)
(* buffered channel requestCh; each worker takes requests from it and runs *)
(* handleRequest, which calls the RequestHandler it was built with.  The   *)
(* handler is any implementation of the interface: an invocation succeeds  *)
(* or fails.  A request's context ends when its deadline passes or when    *)
(* the pool is stopped.                                                    *)
(***************************************************************************)
\* maxRetries = 3
maxRetries == 3
\* BufferSize: cfg.WorkerCount * 20
QueueFactor == 20
\* cfg.WorkerCount
PoolWorkers == 1
\* the error counter is followed up to MaxPoolErrors
MaxPoolErrors == 3

\* cap(p.requestCh)
QueueCap == QueueFactor * PoolWorkers

\* the requests handed to Process
PoolRequests == { [protocol |-> "UDP", addr |-> "10.0.0.1:5353"] }

\* a channel send that waits for room is never ready on a full channel and
\* the select falls to default; this one appends beyond the capacity
OfferUnbounded(ch, req, done) ==
    { [ch |-> Append(ch, req), errors |-> 0] }
    \cup (IF done THEN { [ch |-> ch, errors |-> 1] } ELSE {})

\* the select of Process on the channel ch: the outcomes it can have, as the
\* channel afterwards and the number of RecordError calls.  A send is ready
\* when the channel has room, <-p.ctx.Done() when the pool is stopped; one of
\* the ready cases is chosen, and default runs when none is ready
Offer(ch, req, done) ==
    (IF Len(ch) < QueueCap THEN { [ch |-> Append(ch, req), errors |-> 0] } ELSE {})
    \cup (IF done THEN { [ch |-> ch, errors |-> 1] } ELSE {})
    \cup (IF Len(ch) >= QueueCap /\ ~done THEN { [ch |-> ch, errors |-> 1] } ELSE {})

\* func (p *Processor) Process(req types.Request)
Process(req) ==
    /\ poolErrors < MaxPoolErrors
    /\ \E o \in Offer(requestCh, req, poolDone) :
          /\ requestCh' = o.ch
          /\ poolErrors' = poolErrors + o.errors
          /\ lastProcess' = [before |-> Len(requestCh),
                             after  |-> Len(o.ch),
                             done   |-> poolDone,
                             errors |-> o.errors]
    /\ UNCHANGED <<poolDone, workers>>
    /\ UNCHANGED <<now, limiterVars, cacheVars, codecVars, handlerVars, keyVars, connVars, srvVars, laterVars>>

\* func (p *Processor) Stop()
StopPool ==
    /\ ~poolDone
    /\ poolDone' = TRUE
    /\ UNCHANGED <<requestCh, poolErrors, workers, lastProcess>>
    /\ UNCHANGED <<now, limiterVars, cacheVars, codecVars, handlerVars, keyVars, connVars, srvVars, laterVars>>

\* a worker between requests; outcomes and wrote are history: the results
\* of the handler invocations made for the worker's latest request, and the
\* invocations whose response was written back
IdleWorker ==
    [pc |-> "idle", attempt |-> 0, expired |-> FALSE, outcomes |-> << >>, wrote |-> << >>]

\* worker w is at step with the rest of its record as it is
At2(w, step) == [workers EXCEPT ![w].pc = step]

\* a request context that is done only when the pool is cancelled, whatever
\* its own deadline
CtxDoneIgnoresDeadline(w) == poolDone

\* ctx.Done() of the request worker w is handling is ready
CtxDone(w) == poolDone \/ workers[w].expired

\* the select of worker(): case req := <-p.requestCh, and the start of
\* handleRequest up to the retry loop
Dequeue(w) ==
    /\ workers[w].pc = "idle"
    /\ requestCh # << >>
    /\ requestCh' = Tail(requestCh)
    /\ workers' = [workers EXCEPT ![w] = [IdleWorker EXCEPT !.pc = "attempt", !.attempt = 1]]
    /\ UNCHANGED <<poolDone, poolErrors, lastProcess>>
    /\ UNCHANGED <<now, limiterVars, cacheVars, codecVars, handlerVars, keyVars, connVars, srvVars, laterVars>>

\* the select of worker(): case <-p.ctx.Done(): return
WorkerExit(w) ==
    /\ workers[w].pc = "idle"
    /\ poolDone
    /\ workers' = At2(w, "exited")
    /\ UNCHANGED <<requestCh, poolDone, poolErrors, lastProcess>>
    /\ UNCHANGED <<now, limiterVars, cacheVars, codecVars, handlerVars, keyVars, connVars, srvVars, laterVars>>

\* the deadline of the request worker w is handling passes
Expire(w) ==
    /\ workers[w].pc \in {"attempt", "send"}
    /\ ~workers[w].expired
    /\ workers' = [workers EXCEPT ![w].expired = TRUE]
    /\ UNCHANGED <<requestCh, poolDone, poolErrors, lastProcess>>
    /\ UNCHANGED <<now, limiterVars, cacheVars, codecVars, handlerVars, keyVars, connVars, srvVars, laterVars>>

\* where the retry loop of handleRequest goes after the invocation of number
\* attempt returned: on success the break leaves the select and the loop goes
\* on with attempt++; a failure of the last attempt records an error and
\* returns, an earlier one sleeps and goes on; after the last attempt the
\* loop is left with err == nil
NextAttempt(attempt, ok) ==
    IF ~ok /\ attempt = maxRetries
    THEN [pc |-> "idle", attempt |-> attempt, failed |-> TRUE]
    ELSE IF attempt = maxRetries
    THEN [pc |-> "send", attempt |-> attempt, failed |-> FALSE]
    ELSE [pc |-> "attempt", attempt |-> attempt + 1, failed |-> FALSE]

\* one pass of the retry loop of handleRequest: the select on ctx.Done() and,
\* in its default branch, the handler invocation, which returns ok or not
Attempt(w, ok) ==
    /\ workers[w].pc = "attempt"
    /\ poolErrors < MaxPoolErrors
    /\ IF CtxDone(w)
       THEN /\ workers' = At2(w, "idle")
            /\ poolErrors' = poolErrors + 1
       ELSE LET n == NextAttempt(workers[w].attempt, ok)
            IN  /\ workers' = [workers EXCEPT
                                  ![w].pc = n.pc,
                                  ![w].attempt = n.attempt,
                                  ![w].outcomes = Append(@, IF ok THEN "ok" ELSE "err")]
                /\ poolErrors' = poolErrors + (IF n.failed THEN 1 ELSE 0)
    /\ UNCHANGED <<requestCh, poolDone, lastProcess>>
    /\ UNCHANGED <<now, limiterVars, cacheVars, codecVars, handlerVars, keyVars, connVars, srvVars, laterVars>>

\* the end of handleRequest: the select on ctx.Done() and, in its default
\* branch, p.sendResponse(req.Conn, response) with the response of the last
\* invocation, whose conn.Write succeeds or not
Send(w, ok) ==
    /\ workers[w].pc = "send"
    /\ poolErrors < MaxPoolErrors
    /\ IF CtxDone(w)
       THEN /\ workers' = At2(w, "idle")
            /\ poolErrors' = poolErrors + 1
       ELSE /\ workers' = [workers EXCEPT
                              ![w].pc = "idle",
                              ![w].wrote = IF ok THEN <<workers[w].attempt>> ELSE << >>]
            /\ poolErrors' = poolErrors + (IF ok THEN 0 ELSE 1)
    /\ UNCHANGED <<requestCh, poolDone, lastProcess>>
    /\ UNCHANGED <<now, limiterVars, cacheVars, codecVars, handlerVars, keyVars, connVars, srvVars, laterVars>>

\* no worker pool runs
PoolUnused ==
    /\ requestCh = << >>
    /\ poolDone = FALSE
    /\ poolErrors = 0
    /\ workers = << >>
    /\ lastProcess = None

(***************************************************************************)
(* The command line (runCommand) and the single-file listener it starts    *)
(* for "listen" (dns_listener.Run): its listeners, its workers and the     *)
(* parties that wait for a reply on a request's respCh.  The outcome of    *)
(* limiter.Allow() of golang.org/x/time/rate depends on the load and is    *)
(* either answer.                                                          *)
(***************************************************************************)
\* no more than MaxCliRequests requests arrive in one run
MaxCliRequests == 2

\* the command lines tried
CliArgs ==
    { <<"ns-checker">>, <<"ns-checker", "help">>, <<"ns-checker", "check">>,
      <<"ns-checker", "bogus">>, <<"ns-checker", "listen">>,
      <<"ns-checker", "listen", "25353">>, <<"ns-checker", "listen", "48053">>,
      <<"ns-checker", "listen", "dns">>, <<"ns-checker", "listen", "70000">> }

\* net.LookupPort("udp", port): the number of a numeric port, -1 for an error
\* (a name that is no service; a number out of range is an error too)
LookupPort(port) ==
    CASE port = "25353" -> 25353
      [] port = "48053" -> 48053
      [] OTHER -> -1

\* func parsePort(port string) int
parsePort(port) ==
    IF LookupPort(port) < 1 \/ LookupPort(port) > 65535 THEN -1 ELSE LookupPort(port)

\* the port runCommand hands to Run
ListenPort == IF Len(cliArgs) > 2 THEN cliArgs[3] ELSE "25353"

\* the signals runCommand asks for
Signals == {"SIGINT", "SIGTERM"}
\* the queries the clients of the single-file listener send
LegacyQueries == {"q1", "q2"}

\* the state of the other parts while the command runs
CliFrame ==
    UNCHANGED <<now, limiterVars, cacheVars, codecVars, handlerVars, keyVars,
                connVars, poolVars, srvVars, cfgVars, dataVars, udpVars, tcpVars,
                lastVars>>

\* func runCommand(args []string) int up to its return or, for "listen", up
\* to its select; main exits with the code returned.  os.ReadFile of "check"
\* succeeds or not
runCommand(fileOk) ==
    /\ cliPc = "start"
    /\ LET code ==
              IF Len(cliArgs) < 2 THEN 1
              ELSE CASE cliArgs[2] = "help" -> 0
                     [] cliArgs[2] = "check" -> IF fileOk THEN 0 ELSE 1
                     [] cliArgs[2] = "listen" ->
                           IF Len(cliArgs) > 2 /\ cliArgs[3] = "48053" THEN 0 ELSE -1
                     [] OTHER -> 1
       IN  IF code = -1
           THEN /\ cliPc' = "select"
                /\ runPc' = "new"
                /\ UNCHANGED exitCode
           ELSE /\ cliPc' = "exited"
                /\ exitCode' = code
                /\ UNCHANGED runPc
    /\ UNCHANGED <<cliArgs, sigChan, lsnSock, logFile, logRecords, legacyCh, requests,
                   legacyCache>>
    /\ CliFrame

\* SIGINT or SIGTERM is delivered: signal.Notify puts it in sigChan, which
\* holds one signal
Signal(sig) ==
    /\ cliPc = "select"
    /\ sigChan = << >>
    /\ sigChan' = <<sig>>
    /\ UNCHANGED <<cliArgs, cliPc, exitCode, runPc, lsnSock, logFile, logRecords,
                   legacyCh, requests, legacyCache>>
    /\ CliFrame

\* the select of runCommand: nothing is ever sent to errChan, so it returns
\* on case sig := <-sigChan, and main calls os.Exit with the code
ReceiveSignal ==
    /\ cliPc = "select"
    /\ sigChan # << >>
    /\ sigChan' = Tail(sigChan)
    /\ cliPc' = "exited"
    /\ exitCode' = 0
    /\ UNCHANGED <<cliArgs, runPc, lsnSock, logFile, logRecords, legacyCh, requests,
                   legacyCache>>
    /\ CliFrame

\* func Run(port string) up to select {}: NewDNSListener fails on a port
\* parsePort refuses and when the log file cannot be opened or the
\* permission is missing (envOk), and Run then prints the error and returns;
\* else listener.Start() starts the workers and the listeners
Run ==
    /\ cliPc = "select"
    /\ runPc = "new"
    /\ \E envOk \in BOOLEAN :
          IF parsePort(ListenPort) = -1 \/ ~envOk
          THEN /\ runPc' = "failed"
               /\ UNCHANGED logFile
          ELSE /\ runPc' = "started"
               /\ logFile' = "open"
    /\ UNCHANGED <<cliArgs, cliPc, exitCode, sigChan, lsnSock, logRecords, legacyCh,
                   requests, legacyCache>>
    /\ CliFrame

\* listenUDP / listenTCP up to the loop: net.ListenUDP / net.Listen binds the
\* port, or fails and the goroutine prints the error and returns
Bind(l, ok) ==
    /\ cliPc = "select"
    /\ runPc = "started"
    /\ lsnSock[l] = "none"
    /\ lsnSock' = [lsnSock EXCEPT ![l] = IF ok THEN "open" ELSE "failed"]
    /\ UNCHANGED <<cliArgs, cliPc, exitCode, sigChan, runPc, logFile, logRecords,
                   legacyCh, requests, legacyCache>>
    /\ CliFrame

\* one pass of the loop of listenUDP, or of handleTCPConnection on a
\* connection listenTCP accepted: the request is sent to d.requestCh and the
\* reply goroutine (UDP) or the connection loop (TCP) waits on its respCh
Enqueue(l, data) ==
    /\ cliPc = "select"
    /\ lsnSock[l] = "open"
    /\ Len(requests) < MaxCliRequests
    /\ requests' = Append(requests, [proto |-> l, data |-> data, state |-> "queued"])
    /\ legacyCh' = Append(legacyCh, Len(requests) + 1)
    /\ UNCHANGED <<cliArgs, cliPc, exitCode, sigChan, runPc, lsnSock, logFile,
                   logRecords, legacyCache>>
    /\ CliFrame

\* what the loop body of worker() does with a request: continue without a
\* reply when the limiter refuses it, else a reply from the cache or a fresh
\* one is sent to req.respCh
WorkerOutcome(data, allowed) ==
    IF ~allowed THEN "limited"
    ELSE IF data \in legacyCache THEN "cached reply" ELSE "fresh reply"

\* func (d *DNSListener) worker(): one pass of the loop
worker(allowed) ==
    /\ cliPc = "select"
    /\ legacyCh # << >>
    /\ LET id  == Head(legacyCh)
           out == WorkerOutcome(requests[id].data, allowed)
       IN  /\ legacyCh' = Tail(legacyCh)
           /\ requests' = [requests EXCEPT ![id].state = out]
           /\ logRecords' = logRecords + (IF allowed THEN 1 ELSE 0)
           /\ legacyCache' = IF out = "fresh reply"
                             THEN legacyCache \cup {requests[id].data}
                             ELSE legacyCache
    /\ UNCHANGED <<cliArgs, cliPc, exitCode, sigChan, runPc, lsnSock, logFile>>
    /\ CliFrame

\* response := <-respCh in the reply goroutine of listenUDP or in
\* handleTCPConnection, and the write of the response
Reply(id) ==
    /\ cliPc = "select"
    /\ id \in DOMAIN requests
    /\ requests[id].state \in {"cached reply", "fresh reply"}
    /\ requests' = [requests EXCEPT ![id].state = "answered"]
    /\ UNCHANGED <<cliArgs, cliPc, exitCode, sigChan, runPc, lsnSock, logFile,
                   logRecords, legacyCh, legacyCache>>
    /\ CliFrame

\* no command runs
CliUnused ==
    /\ cliArgs = << >>
    /\ cliPc = ""
    /\ exitCode = -1
    /\ sigChan = << >>
    /\ runPc = ""
    /\ lsnSock = << >>
    /\ logFile = ""
    /\ logRecords = 0
    /\ legacyCh = << >>
    /\ requests = << >>
    /\ legacyCache = {}

(***************************************************************************)
(* The request structs of the worker pool: handleRequest takes a struct    *)
(* from the requestPool, copies the request into it, hands its Data to the *)
(* handler and puts it back when it returns.  The handler invocations of   *)
(* the retry loop all receive the same bytes; one stands for them.         *)
(***************************************************************************)
\* Data: make([]byte, 512)
PoolDataSize == 512
\* the worker goroutines that share the pool
DataWorkers == 1..2
\* the number of requests followed
MaxDataRequests == 2

\* the message q followed by bytes 255, n bytes in all
Filled(q, n) == q \o [i \in 1..(n - Len(q)) |-> 255]

\* the requests handed to Process: without Data, as DNSListener.handleRequest
\* builds them, and with a message shorter than, as long as and longer than
\* the pooled buffer
DataRequests ==
    [Conn : {"conn"}, ClientAddr : {"10.0.0.1:5353"}, Protocol : {"UDP", "TCP"},
     Data : { Nil, ExampleQuery, Filled(ExampleQuery, PoolDataSize),
              Filled(ExampleQuery, PoolDataSize + 1) }]

\* sync.Pool.New
NewRequest ==
    [Conn |-> None, ClientAddr |-> None, Protocol |-> "", Data |-> Zeros(PoolDataSize)]

\* copy(dst, src): the bytes of dst afterwards
Copy(dst, src) ==
    [i \in 1..Len(dst) |-> IF i <= Len(src) THEN src[i] ELSE dst[i]]

\* a put that clears the three fields and leaves the buffer as it is
putKeepsData(req) ==
    [Conn |-> None, ClientAddr |-> None, Protocol |-> "", Data |-> req.Data]

\* func (p *requestPool) put(req *types.Request): the struct as it enters
\* the pool
put(req) ==
    [Conn |-> None, ClientAddr |-> None, Protocol |-> "", Data |-> Zeros(Len(req.Data))]

\* a worker outside handleRequest
NoRequest ==
    [pc |-> "idle", req |-> None, pooled |-> None, reused |-> FALSE, handed |-> None]

DataFrame ==
    UNCHANGED <<now, limiterVars, cacheVars, codecVars, handlerVars, keyVars,
                connVars, poolVars, srvVars, cliVars, cfgVars, udpVars, tcpVars,
                lastVars>>

\* handleRequest up to its retry loop: p.reqPool.get(), which returns the
\* struct at position i of the pool or, for i = 0, a new one, and the copy
\* of the request into it
GetRequest(w, req, i) ==
    /\ handling[w].pc = "idle"
    /\ handled < MaxDataRequests
    /\ i = 0 \/ i \in DOMAIN reqPool
    /\ LET got == IF i = 0 THEN NewRequest ELSE reqPool[i]
       IN  handling' = [handling EXCEPT ![w] =
               [pc |-> "got",
                req |-> req,
                pooled |-> [Conn |-> req.Conn,
                            ClientAddr |-> req.ClientAddr,
                            Protocol |-> req.Protocol,
                            Data |-> Copy(got.Data, req.Data)],
                reused |-> i # 0,
                handed |-> None]]
    /\ reqPool' = [k \in 1..(Len(reqPool) - (IF i = 0 THEN 0 ELSE 1)) |->
                      IF i = 0 \/ k < i THEN reqPool[k] ELSE reqPool[k + 1]]
    /\ handled' = handled + 1
    /\ DataFrame

\* p.handler.HandleRequest(pooledReq.Data, pooledReq.ClientAddr,
\* pooledReq.Protocol)
Invoke(w) ==
    /\ handling[w].pc = "got"
    /\ handling' = [handling EXCEPT ![w].pc = "invoked",
                                    ![w].handed = handling[w].pooled.Data]
    /\ UNCHANGED <<reqPool, handled>>
    /\ DataFrame

\* the return of handleRequest, before the first invocation when the
\* context is done or after the last: defer p.reqPool.put(pooledReq)
PutRequest(w) ==
    /\ handling[w].pc \in {"got", "invoked"}
    /\ reqPool' = Append(reqPool, put(handling[w].pooled))
    /\ handling' = [handling EXCEPT ![w].pc = "idle", ![w].pooled = None]
    /\ UNCHANGED handled
    /\ DataFrame

\* the garbage collector empties the sync.Pool
DropPooled ==
    /\ reqPool # << >>
    /\ reqPool' = << >>
    /\ UNCHANGED <<handling, handled>>
    /\ DataFrame

\* no request struct is in use
DataUnused ==
    /\ reqPool = << >>
    /\ handling = << >>
    /\ handled = 0

(***************************************************************************)
(* The read loop of startUDP and the goroutines it starts.  The loop reads *)
(* every datagram into the one buffer it made before the loop and starts   *)
(* handleUDPRequest on buffer[:n]; the goroutine reads those bytes when it *)
(* runs, at any time after.  A read that runs at the same time as a write  *)
(* of ReadFromUDP sees, byte by byte, what has been copied so far: the     *)
(* copy is taken in two parts.                                             *)
(***************************************************************************)
\* buffer := make([]byte, 4096)
UdpBufferSize == 4096
\* the number of datagrams read
MaxUdpReads == 2

\* the datagrams sent, with their senders
UdpDatagrams ==
    [data : {HeaderOnlyQuery, ExampleQuery, Filled(ExampleQuery, 40)},
     addr : {UdpClient, ConnClient}]

\* how many bytes the first part of the copy of the datagram d writes
CopyParts(d) == {0, 12, Len(d)}

UdpFrame ==
    UNCHANGED <<now, limiterVars, cacheVars, codecVars, handlerVars, keyVars,
                connVars, poolVars, srvVars, cliVars, cfgVars, dataVars, tcpVars,
                lastVars>>

\* conn.ReadFromUDP(buffer): a datagram has arrived and its first k bytes
\* are copied into the buffer
ReadFromUDP(dg, k) ==
    /\ udpRead = None
    /\ Len(udpTasks) < MaxUdpReads
    /\ k \in CopyParts(dg.data)
    /\ udpBuffer' = Overlay(udpBuffer, 0, SubSeq(dg.data, 1, k))
    /\ udpRead' = dg
    /\ UNCHANGED udpTasks
    /\ UdpFrame

\* ReadFromUDP returns n and remoteAddr with the whole datagram in the
\* buffer: go s.handleUDPRequest(buffer[:n], remoteAddr)
StartHandler ==
    /\ udpRead # None
    /\ udpBuffer' = Overlay(udpBuffer, 0, udpRead.data)
    /\ udpTasks' = Append(udpTasks, [sent |-> udpRead.data,
                                     n    |-> Len(udpRead.data),
                                     addr |-> udpRead.addr,
                                     seen |-> None])
    /\ udpRead' = None
    /\ UdpFrame

\* the goroutine t runs: s.handler.HandleRequest(data, addr, "UDP") with
\* data the first n bytes of the buffer as they are now
RunHandler(t) ==
    /\ t \in DOMAIN udpTasks
    /\ udpTasks[t].seen = None
    /\ udpTasks' = [udpTasks EXCEPT ![t].seen = SubSeq(udpBuffer, 1, udpTasks[t].n)]
    /\ UNCHANGED <<udpBuffer, udpRead>>
    /\ UdpFrame

\* no datagram is read
UdpUnused ==
    /\ udpBuffer = << >>
    /\ udpRead = None
    /\ udpTasks = << >>

(***************************************************************************)
(* The handlers of the accepted TCP connections of network.Server, each a  *)
(* goroutine that runs handleTCPConnection and closes the connection when  *)
(* it returns.  A client sends the length prefix and the message as chunks *)
(* when it likes and closes its side when it likes; conn.Read waits until  *)
(* a chunk has arrived or the client has closed.                           *)
(***************************************************************************)
\* the connections accepted
TcpConns == 1..2
\* the chunks a client sends at most
MaxTcpChunks == 2

\* a connection just accepted: go func() { ...; s.handleTCPConnection(conn) }()
Accepted ==
    [pc |-> "select", sent |-> 0, unread |-> 0, client |-> "open"]

TcpFrame ==
    UNCHANGED <<now, limiterVars, cacheVars, codecVars, handlerVars, keyVars,
                connVars, poolVars, srvVars, cliVars, cfgVars, dataVars, udpVars,
                lastVars>>

\* the client of connection c sends a chunk
ClientSend(c) ==
    /\ tcpConns[c].client = "open"
    /\ tcpConns[c].pc # "returned"
    /\ tcpConns[c].sent < MaxTcpChunks
    /\ tcpConns' = [tcpConns EXCEPT ![c].sent = @ + 1, ![c].unread = @ + 1]
    /\ UNCHANGED tcpDone
    /\ TcpFrame

\* the client of connection c closes its side
ClientClose(c) ==
    /\ tcpConns[c].client = "open"
    /\ tcpConns' = [tcpConns EXCEPT ![c].client = "closed"]
    /\ UNCHANGED tcpDone
    /\ TcpFrame

\* the select at the top of the loop of handleTCPConnection: the handler
\* returns when s.ctx is done, else the default branch begins
TcpSelect(c) ==
    /\ tcpConns[c].pc = "select"
    /\ tcpConns' = [tcpConns EXCEPT ![c].pc = IF tcpDone THEN "returned" ELSE "length"]
    /\ UNCHANGED tcpDone
    /\ TcpFrame

\* conn.Read(buffer[:2]) and the test of the length, which is too long or
\* not: the read returns when a chunk is there or, with an error, when the
\* client has closed
ReadPrefix(c, tooLong) ==
    /\ tcpConns[c].pc = "length"
    /\ tcpConns[c].unread > 0 \/ tcpConns[c].client = "closed"
    /\ tcpConns' = [tcpConns EXCEPT
                       ![c].pc = IF tcpConns[c].unread = 0 \/ tooLong
                                 THEN "returned" ELSE "message",
                       ![c].unread = IF @ = 0 THEN 0 ELSE @ - 1]
    /\ UNCHANGED tcpDone
    /\ TcpFrame

\* conn.Read(buffer[2 : length+2])
ReadBody(c) ==
    /\ tcpConns[c].pc = "message"
    /\ tcpConns[c].unread > 0 \/ tcpConns[c].client = "closed"
    /\ tcpConns' = [tcpConns EXCEPT
                       ![c].pc = IF tcpConns[c].unread = 0 THEN "returned" ELSE "handle",
                       ![c].unread = IF @ = 0 THEN 0 ELSE @ - 1]
    /\ UNCHANGED tcpDone
    /\ TcpFrame

\* s.handler.HandleRequest and, on success, the two writes; the loop goes on
HandleMessage(c) ==
    /\ tcpConns[c].pc = "handle"
    /\ tcpConns' = [tcpConns EXCEPT ![c].pc = "select"]
    /\ UNCHANGED tcpDone
    /\ TcpFrame

\* func (s *Server) Stop(): s.cancel(); the UDP socket and the TCP listener
\* are closed, the accepted connections are not
CancelServer ==
    /\ ~tcpDone
    /\ tcpDone' = TRUE
    /\ UNCHANGED tcpConns
    /\ TcpFrame

\* the steps of the handler of connection c
HandlerStep(c) ==
    \/ TcpSelect(c)
    \/ \E tooLong \in BOOLEAN : ReadPrefix(c, tooLong)
    \/ ReadBody(c)
    \/ HandleMessage(c)

\* no connection is accepted
TcpUnused ==
    /\ tcpConns = << >>
    /\ tcpDone = FALSE

(***************************************************************************)
(* Get and Set of the caches under concurrent calls.  ShardedCache.Get and *)
(* LRUCache.Get read the entry under the read lock, release it, and then   *)
(* test the expiry and, for an expired entry, take the write lock to       *)
(* delete the key; Cache.Get of the single-file listener does all of it    *)
(* under the read lock.  Set runs under the write lock.  The cache is      *)
(* large enough that no Set evicts.                                        *)
(***************************************************************************)
\* the caches
CacheKinds == {"ShardedCache", "LRUCache", "Cache"}
\* the goroutines that call Get
Getters == 1..2
RaceKeys == {"k"}
RaceValues == {"v1", "v2"}
\* the clock runs up to MaxRaceTime and MaxRaceSets calls of Set are made
MaxRaceTime == 2
MaxRaceSets == 2

\* a goroutine outside Get; seen, result and at are those of its last call
OutsideGet == [pc |-> "idle", key |-> "", seen |-> None, result |-> None, at |-> 0]

RaceFrame ==
    UNCHANGED <<limiterVars, cacheVars, codecVars, handlerVars, keyVars,
                connVars, poolVars, srvVars, cliVars, cfgVars, dataVars, udpVars,
                tcpVars, allowVars, logVars, nlVars, bgVars>>

\* time.Now().After(e.expires)
EntryExpired(e, t) == t > e.expires

\* what a Get that read the entry e returns at time t
GetResult(e, t) ==
    IF e = None
    THEN [value |-> Nil, ok |-> FALSE]
    ELSE IF EntryExpired(e, t)
    THEN [value |-> Nil, ok |-> FALSE]
    ELSE [value |-> e.value, ok |-> TRUE]

\* whether a Get that read the entry e deletes the key at time t
DeletesKey(e, t) == IF e = None THEN FALSE ELSE EntryExpired(e, t)

\* the delete of the key by a Get that found an expired entry: delete(
\* shard.items, key), c.Delete(key), delete(c.entries, key)
DeleteKey(its, k) == [its EXCEPT ![k] = None]

\* the clock advances
RaceTick ==
    /\ now < MaxRaceTime
    /\ now' = now + 1
    /\ UNCHANGED raceVars
    /\ RaceFrame

\* Set(key, value, ttl), under the write lock
RaceSet(k, v, ttl) ==
    /\ setCount < MaxRaceSets
    /\ shardItems' = [shardItems EXCEPT ![k] = [value |-> v, expires |-> now + ttl]]
    /\ setCount' = setCount + 1
    /\ UNCHANGED <<now, cacheKind, getters>>
    /\ RaceFrame

\* the first part of Get: the entry is read under the read lock.  Cache.Get
\* goes on under the same lock to its return
GetRead(g, k) ==
    /\ getters[g].pc = "idle"
    /\ IF cacheKind = "Cache"
       THEN /\ getters' = [getters EXCEPT ![g] =
                   [pc |-> "idle", key |-> k, seen |-> shardItems[k],
                    result |-> GetResult(shardItems[k], now), at |-> now]]
            /\ shardItems' = IF DeletesKey(shardItems[k], now)
                             THEN DeleteKey(shardItems, k)
                             ELSE shardItems
       ELSE /\ getters' = [getters EXCEPT ![g] =
                   [pc |-> "read", key |-> k, seen |-> shardItems[k],
                    result |-> None, at |-> now]]
            /\ UNCHANGED shardItems
    /\ UNCHANGED <<now, cacheKind, setCount>>
    /\ RaceFrame

\* the rest of Get of ShardedCache and LRUCache: the expiry test on the
\* entry that was read and, for an expired one, the delete of the key
\* under the write lock
GetFinish(g) ==
    /\ getters[g].pc = "read"
    /\ LET e == getters[g].seen
           k == getters[g].key
       IN  /\ getters' = [getters EXCEPT ![g].pc = "idle",
                                         ![g].result = GetResult(e, now),
                                         ![g].at = now]
           /\ shardItems' = IF DeletesKey(e, now)
                            THEN DeleteKey(shardItems, k) ELSE shardItems
    /\ UNCHANGED <<now, cacheKind, setCount>>
    /\ RaceFrame

\* no goroutine shares a cache
RaceUnused ==
    /\ cacheKind = ""
    /\ shardItems = << >>
    /\ getters = << >>
    /\ setCount = 0

(***************************************************************************)
(* RateLimiter.Allow called by several goroutines.  Allow takes rl.mu at   *)
(* its start and releases it when it returns; between the two it reads the *)
(* bucket, refills it, and writes the bucket and the counters.             *)
(***************************************************************************)
\* the goroutines that call Allow
Allowers == 1..2
\* the calls followed and the time the clock reaches
MaxAllowCalls == 3
MaxAllowTime == 2

\* a goroutine outside Allow
OutsideAllow == [pc |-> "idle", key |-> "", read |-> None, at |-> 0]

AllowFrame ==
    UNCHANGED <<limiterVars, cacheVars, codecVars, handlerVars, keyVars,
                connVars, poolVars, srvVars, cliVars, cfgVars, dataVars, udpVars,
                tcpVars, raceVars, logVars, nlVars, bgVars>>

\* a mutex that excludes nobody
LockFreeAlways(mu) == TRUE

\* rl.mu.Lock() returns: nobody holds the mutex
LockFree(mu) == mu = 0

\* the clock advances
AllowTick ==
    /\ now < MaxAllowTime
    /\ now' = now + 1
    /\ UNCHANGED allowVars
    /\ AllowFrame

\* rl.mu.Lock(); now := time.Now(); b, exists := rl.limits[key] and, for a
\* key without a bucket, the new bucket and the active-keys counter
AllowLock(g, key) ==
    /\ allowers[g].pc = "idle"
    /\ Len(allowDone) + Cardinality({h \in Allowers : allowers[h].pc # "idle"})
          < MaxAllowCalls
    /\ LockFree(rlMu)
    /\ rlMu' = g
    /\ LET b == IF key \in DOMAIN rlLimits THEN rlLimits[key]
                ELSE NewBucket(now, rlConfig.burst)
       IN  /\ rlLimits' = [k \in DOMAIN rlLimits \cup {key} |->
                              IF k = key THEN b ELSE rlLimits[k]]
           /\ rlCounters' = [rlCounters EXCEPT
                                !.activeKeys = @ + (IF key \in DOMAIN rlLimits THEN 0 ELSE 1)]
           /\ allowers' = [allowers EXCEPT ![g] =
                              [pc |-> "locked", key |-> key, read |-> b, at |-> now]]
    /\ UNCHANGED <<now, rlConfig, allowDone>>
    /\ AllowFrame

\* the rest of Allow: the refill of the bucket that was read, the token
\* test, the decrement, the counter and the return, which unlocks
AllowReturn(g) ==
    /\ allowers[g].pc = "locked"
    /\ LET key == allowers[g].key
           b == Refill(allowers[g].read, allowers[g].at, rlConfig.rate, rlConfig.burst)
           ok == HasToken(b)
       IN  /\ key \in DOMAIN rlLimits
           /\ rlLimits' = [rlLimits EXCEPT ![key] = IF ok THEN TakeToken(b) ELSE b]
           /\ rlCounters' = [rlCounters EXCEPT
                                !.allowed = @ + (IF ok THEN 1 ELSE 0),
                                !.limited = @ + (IF ok THEN 0 ELSE 1)]
           /\ allowDone' = Append(allowDone,
                                  [key |-> key, ret |-> ok,
                                   read |-> allowers[g].read,
                                   held |-> rlLimits[key]])
    /\ rlMu' = 0
    /\ allowers' = [allowers EXCEPT ![g] = OutsideAllow]
    /\ UNCHANGED <<now, rlConfig>>
    /\ AllowFrame

\* no goroutine shares a limiter
AllowUnused ==
    /\ rlConfig = None
    /\ rlMu = 0
    /\ rlLimits = << >>
    /\ rlCounters = None
    /\ allowers = << >>
    /\ allowDone = << >>

(***************************************************************************)
(* FileLogger: LogRequest, Write and reopenLogFile.  Handles are numbered  *)
(* in the order they are opened.  A write to a good handle succeeds; a     *)
(* write to a handle that has gone bad (its file was removed from under    *)
(* it, the device reports errors) or is closed fails.                      *)
(***************************************************************************)
\* the handles opened and the records written in one run
MaxOpens == 3
MaxLogWrites == 4

LogFrame ==
    UNCHANGED <<now, limiterVars, cacheVars, codecVars, handlerVars, keyVars,
                connVars, poolVars, srvVars, cliVars, cfgVars, dataVars, udpVars,
                tcpVars, raceVars, allowVars, nlVars, bgVars>>

\* l.file.WriteString(s) returns an error
WriteFails(state) == state # "good"

\* the handle of the logger goes bad
Spoil ==
    /\ flState = "good"
    /\ flState' = "bad"
    /\ UNCHANGED <<flFile, flWritten, flLast>>
    /\ LogFrame

\* func (l *FileLogger) reopenLogFile() error, os.OpenFile succeeding or
\* not: the handle and its state afterwards
reopenLogFile(file, openOk) ==
    IF openOk THEN [file |-> file + 1, state |-> "good"]
    ELSE [file |-> file, state |-> "closed"]

\* func (l *FileLogger) LogRequest(protocol, remoteAddr, data, err): the
\* result of l.file.WriteString is not looked at
LogRequest ==
    /\ Len(flWritten) < MaxLogWrites
    /\ flWritten' = IF WriteFails(flState) THEN flWritten
                    ELSE Append(flWritten, "request")
    /\ flLast' = [op |-> "LogRequest", failed |-> WriteFails(flState),
                  file |-> flFile, reopened |-> FALSE]
    /\ UNCHANGED <<flFile, flState>>
    /\ LogFrame

\* func (l *FileLogger) Write(entry string): on a write error the file is
\* reopened, and os.OpenFile succeeds or not
Write(openOk) ==
    /\ Len(flWritten) < MaxLogWrites
    /\ flFile < MaxOpens
    /\ IF WriteFails(flState)
       THEN /\ flFile' = reopenLogFile(flFile, openOk).file
            /\ flState' = reopenLogFile(flFile, openOk).state
            /\ UNCHANGED flWritten
       ELSE /\ flWritten' = Append(flWritten, "entry")
            /\ UNCHANGED <<flFile, flState>>
    /\ flLast' = [op |-> "Write", failed |-> WriteFails(flState),
                  file |-> flFile, reopened |-> WriteFails(flState) /\ openOk]
    /\ LogFrame

\* func (l *FileLogger) Close()
CloseLog ==
    /\ flState # "closed"
    /\ flState' = "closed"
    /\ UNCHANGED <<flFile, flWritten, flLast>>
    /\ LogFrame

\* no logger is open
LogUnused ==
    /\ flFile = 0
    /\ flState = ""
    /\ flWritten = << >>
    /\ flLast = None

(***************************************************************************)
(* config.ValidateConfig and the port checker.  Durations are in minutes,  *)
(* the rate limit is a whole number of requests per second.                *)
(***************************************************************************)
\* strconv.Atoi(port) of the port texts used: the number and whether Atoi
\* returned an error
Atoi(port) ==
    CASE port = "8053" -> [n |-> 8053, err |-> FALSE]
      [] port = "8080" -> [n |-> 8080, err |-> FALSE]
      [] port = "0" -> [n |-> 0, err |-> FALSE]
      [] port = "08053" -> [n |-> 8053, err |-> FALSE]
      [] port = "25353" -> [n |-> 25353, err |-> FALSE]
      [] OTHER -> [n |-> 0, err |-> TRUE]

\* func (pc *DefaultPortChecker) IsPortAvailable(port string) error:
\* TRUE when it returns nil
IsPortAvailable(port, inUse) ==
    /\ ~Atoi(port).err
    /\ ~(Atoi(port).n < 1 \/ Atoi(port).n > 65535)
    /\ port \notin inUse

\* the configurations validated: each field below, at and above its limits
Configs ==
    [Port : {"", "8053", "0"},
     HealthPort : {"", "8053", "8080"},
     WorkerCount : {0, 1, 128, 129},
     RateLimit : {0, 1000, 1000000, 1000001},
     RateBurst : {0, 100, 10000, 10001},
     CacheTTL : {0, 1, 2},
     CacheCleanupInterval : {-1, 0, 1, 3},
     LogMaxSize : {0, 10, 1025}]

\* the errors ValidateConfig collects, by field, in the order of its checks
ConfigErrors(c, inUse) ==
    (IF c.Port # "" /\ ~IsPortAvailable(c.Port, inUse) THEN <<"Port">> ELSE << >>)
    \o (IF c.HealthPort # "" /\ ~IsPortAvailable(c.HealthPort, inUse)
        THEN <<"HealthPort">> ELSE << >>)
    \o (IF c.HealthPort # "" /\ c.Port = c.HealthPort
        THEN <<"HealthPort">> ELSE << >>)
    \o (IF c.WorkerCount < 1 \/ c.WorkerCount > 128
        THEN <<"WorkerCount">> ELSE << >>)
    \o (IF c.RateLimit <= 0 \/ c.RateLimit > 1000000
        THEN <<"RateLimit">> ELSE << >>)
    \o (IF c.RateBurst <= 0 \/ c.RateBurst > 10000
        THEN <<"RateBurst">> ELSE << >>)
    \o (IF c.RateBurst > c.RateLimit THEN <<"RateBurst">> ELSE << >>)
    \o (IF c.CacheTTL <= 0 THEN <<"CacheTTL">> ELSE << >>)
    \o (IF c.CacheCleanupInterval > c.CacheTTL
        THEN <<"CacheCleanupInterval">> ELSE << >>)
    \o (IF c.LogMaxSize < 1 \/ c.LogMaxSize > 1024
        THEN <<"LogMaxSize">> ELSE << >>)

\* func ValidateConfig(config *Config) error: the error is nil when
\* cfgErrors is empty
ValidateConfig ==
    /\ cfgPc = "loaded"
    /\ cfgErrors' = ConfigErrors(config, portsInUse)
    /\ cfgPc' = "validated"
    /\ UNCHANGED <<config, portsInUse>>
    /\ UNCHANGED <<now, limiterVars, cacheVars, codecVars, handlerVars, keyVars,
                   connVars, poolVars, srvVars, cliVars, dataVars, udpVars, tcpVars,
                   lastVars>>

\* no configuration is validated
CfgUnused ==
    /\ config = None
    /\ cfgPc = ""
    /\ cfgErrors = << >>
    /\ portsInUse = {}

(***************************************************************************)
(* NewDNSListener of the listener package: it is handed a pointer to the   *)
(* loaded configuration and keeps that pointer.                            *)
(***************************************************************************)
\* const DefaultPort = 53 of package network
NetworkDefaultPort == 53

\* fmt.Sprintf("%d", n) of the port numbers used
FormatPort(n) ==
    CASE n = 8053 -> "8053"
      [] n = 8080 -> "8080"
      [] n = 25353 -> "25353"
      [] n = NetworkDefaultPort -> "53"
      [] OTHER -> "0"

\* func ParsePort(port string) (int, error)
ParsePort(port) ==
    IF port = "" THEN [n |-> NetworkDefaultPort, err |-> FALSE]
    ELSE IF Atoi(port).err THEN [n |-> 0, err |-> TRUE]
    ELSE IF Atoi(port).n < 1 \/ Atoi(port).n > 65535 THEN [n |-> 0, err |-> TRUE]
    ELSE [n |-> Atoi(port).n, err |-> FALSE]

\* the configurations LoadFromEnv hands over: the port is the text of
\* DNS_PORT or the default, the durations (in minutes) any parsed duration
ListenerConfigs ==
    [Port : {"25353", "8053", "08053", "0", "dns"},
     WorkerCount : {1, 2, 4},
     RateLimit : {1000},
     RateBurst : {100},
     CacheTTL : {0, 5},
     CacheCleanupInterval : {0, 1},
     LogPath : {"./logs/dns_listener.log"}]

\* an assignment to a field of the configuration through the pointer
SetConfig(cfg, field, value) == [cfg EXCEPT ![field] = value]

\* func NewDNSListener(cfg *config.Config) (*DNSListener, error), with
\* NewFileLogger succeeding or not
NewDNSListener(loggerOk) ==
    /\ nlListener = None
    /\ LET parsed == ParsePort(nlConfig.Port)
           c1 == SetConfig(nlConfig, "Port", FormatPort(parsed.n))
           c2 == IF c1.CacheTTL = 0 THEN SetConfig(c1, "CacheTTL", 30) ELSE c1
           c3 == IF c2.CacheCleanupInterval = 0
                 THEN SetConfig(c2, "CacheCleanupInterval", 1) ELSE c2
       IN  IF parsed.err
           THEN /\ nlListener' = [err |-> "invalid port"]
                /\ UNCHANGED nlConfig
           ELSE IF ~loggerOk
           THEN /\ nlListener' = [err |-> "failed to create logger"]
                /\ nlConfig' = c1
           ELSE /\ nlListener' = [err |-> "", port |-> c3.Port,
                                  DefaultTTL |-> c3.CacheTTL,
                                  CleanupInterval |-> c3.CacheCleanupInterval,
                                  queue |-> c3.WorkerCount * QueueFactor]
                /\ nlConfig' = c3
    /\ UNCHANGED nlLoaded
    /\ UNCHANGED <<now, limiterVars, cacheVars, codecVars, handlerVars, keyVars,
                   connVars, poolVars, srvVars, cliVars, cfgVars, dataVars, udpVars,
                   tcpVars, raceVars, allowVars, logVars, bgVars>>

\* no listener is constructed
NlUnused ==
    /\ nlConfig = None
    /\ nlLoaded = None
    /\ nlListener = None

(***************************************************************************)
(* BasicCache.Get called from several goroutines: the read lock admits     *)
(* all of them at once, and c.stats.Hits++ / c.stats.Misses++ are a load   *)
(* and a store of a plain int64.                                           *)
(***************************************************************************)
\* the goroutines that call Get
BgGetters == 1..2
\* the keys they ask for
BgKeys == {"a", "b"}
\* no more than MaxBgGets Get calls return in one run
MaxBgGets == 3

\* a goroutine outside Get
OutsideBgGet == [pc |-> "idle", key |-> "", field |-> "", seen |-> 0]

BgFrame ==
    UNCHANGED <<now, limiterVars, cacheVars, codecVars, handlerVars, keyVars,
                connVars, poolVars, srvVars, cliVars, cfgVars, dataVars, udpVars,
                tcpVars, raceVars, allowVars, logVars, nlVars>>

\* c.mu.RLock(); item, exists := c.items[key]; the test of exists and of the
\* expiry picks the counter.  The read lock is free whenever no writer holds
\* c.mu, and a writer holds it only within the one step of BgSet or
\* BgDelete; other readers do not matter
BgGetRLock(g, key) ==
    /\ bgGetters[g].pc = "idle"
    /\ bgDone + Cardinality({h \in BgGetters : bgGetters[h].pc # "idle"}) < MaxBgGets
    /\ bgGetters' = [bgGetters EXCEPT ![g] =
                        [pc |-> "locked", key |-> key,
                         field |-> IF key \in bgItems THEN "Hits" ELSE "Misses",
                         seen |-> 0]]
    /\ UNCHANGED <<bgItems, bgStats, bgDone>>
    /\ BgFrame

\* the load of c.stats.Hits++ or c.stats.Misses++
BgGetLoad(g) ==
    /\ bgGetters[g].pc = "locked"
    /\ bgGetters' = [bgGetters EXCEPT ![g].pc = "loaded",
                                      ![g].seen = bgStats[bgGetters[g].field]]
    /\ UNCHANGED <<bgItems, bgStats, bgDone>>
    /\ BgFrame

\* the store of the increment, the return and the deferred c.mu.RUnlock()
BgGetStore(g) ==
    /\ bgGetters[g].pc = "loaded"
    /\ bgStats' = [bgStats EXCEPT ![bgGetters[g].field] = bgGetters[g].seen + 1]
    /\ bgGetters' = [bgGetters EXCEPT ![g] = OutsideBgGet]
    /\ bgDone' = bgDone + 1
    /\ UNCHANGED bgItems
    /\ BgFrame

\* func (c *BasicCache) Set(key, value, ttl) of a small value with a long
\* ttl, under c.mu.Lock(): it waits until no reader holds the lock
BgSet(key) ==
    /\ \A g \in BgGetters : bgGetters[g].pc = "idle"
    /\ key \notin bgItems
    /\ bgItems' = bgItems \cup {key}
    /\ UNCHANGED <<bgStats, bgGetters, bgDone>>
    /\ BgFrame

\* func (c *BasicCache) Delete(key string), under c.mu.Lock()
BgDelete(key) ==
    /\ \A g \in BgGetters : bgGetters[g].pc = "idle"
    /\ key \in bgItems
    /\ bgItems' = bgItems \ {key}
    /\ UNCHANGED <<bgStats, bgGetters, bgDone>>
    /\ BgFrame

\* no goroutine calls Get
BgUnused ==
    /\ bgItems = {}
    /\ bgStats = None
    /\ bgGetters = << >>
    /\ bgDone = 0

\* the state of the last parts in a specification that does not use them
LastUnused ==
    /\ RaceUnused
    /\ AllowUnused
    /\ LogUnused
    /\ NlUnused
    /\ BgUnused

\* the state of the later parts in a specification that does not use them
LaterUnused ==
    /\ CliUnused
    /\ CfgUnused
    /\ DataUnused
    /\ UdpUnused
    /\ TcpUnused
    /\ LastUnused

(***************************************************************************)
(* network.Server: Start, Stop and the two listener goroutines.  Start has *)
(* added 2 to the wait group, started the goroutines and waits in its      *)
(* select; the steps of Stop and of the listeners interleave statement by  *)
(* statement.                                                              *)
(***************************************************************************)
Listeners == {"udp", "tcp"}
\* no more than MaxAccepts datagrams and connections arrive in one run
MaxAccepts == 1

\* the state of the other parts while the server starts and stops
SrvFrame ==
    UNCHANGED <<now, limiterVars, cacheVars, codecVars, handlerVars, keyVars,
                connVars, poolVars, laterVars>>

\* the goroutine of Start returns from startUDP or startTCP with a nil error:
\* the deferred s.wg.Done()
Returned(l) ==
    /\ srvPc' = [srvPc EXCEPT ![l] = "done"]
    /\ wg' = wg - 1

\* net.ListenUDP / net.Listen: the socket is opened, or the call fails and
\* the goroutine sends the error to errChan and ends
Listen(l, ok) ==
    /\ srvPc[l] = "start"
    /\ IF ok
       THEN /\ srvSock' = [srvSock EXCEPT ![l] = "open"]
            /\ srvPc' = [srvPc EXCEPT ![l] = "opened"]
            /\ UNCHANGED <<errChan, wg>>
       ELSE /\ errChan' = Append(errChan, l)
            /\ srvPc' = [srvPc EXCEPT ![l] = "failed"]
            /\ wg' = wg - 1
            /\ UNCHANGED srvSock
    /\ UNCHANGED <<srvDone, callerDone, srvConn, stopPc, startPc, accepted>>
    /\ SrvFrame

\* s.udpConn = conn / s.tcpListener = conn
Assign(l) ==
    /\ srvPc[l] = "opened"
    /\ srvConn' = [srvConn EXCEPT ![l] = TRUE]
    /\ srvPc' = [srvPc EXCEPT ![l] = "select"]
    /\ UNCHANGED <<srvDone, callerDone, srvSock, errChan, wg, stopPc, startPc, accepted>>
    /\ SrvFrame

\* the select at the top of the listener's loop: case <-s.ctx.Done(): return
\* nil; default: the call of ReadFromUDP / Accept
Select(l) ==
    /\ srvPc[l] = "select"
    /\ IF srvDone
       THEN Returned(l)
       ELSE srvPc' = [srvPc EXCEPT ![l] = "read"] /\ UNCHANGED wg
    /\ UNCHANGED <<srvDone, callerDone, srvConn, srvSock, errChan, stopPc, startPc,
                   accepted>>
    /\ SrvFrame

\* ReadFromUDP / Accept returns: with an error once the socket is closed
\* (return nil), else with a datagram or a connection, which is handed to a
\* goroutine of its own before the loop goes on
Read(l) ==
    /\ srvPc[l] = "read"
    /\ IF srvSock[l] = "closed"
       THEN Returned(l) /\ UNCHANGED accepted
       ELSE /\ Len(accepted) < MaxAccepts
            /\ accepted' = Append(accepted, l)
            /\ srvPc' = [srvPc EXCEPT ![l] = "select"]
            /\ UNCHANGED wg
    /\ UNCHANGED <<srvDone, callerDone, srvConn, srvSock, errChan, stopPc, startPc>>
    /\ SrvFrame

\* if s.udpConn != nil { s.udpConn.Close() } and the same for s.tcpListener:
\* the sockets afterwards
CloseIfSet(l) ==
    IF srvConn[l] THEN [srvSock EXCEPT ![l] = "closed"] ELSE srvSock

\* func (s *Server) Stop(), statement by statement: s.cancel(), the two
\* closes, s.wg.Wait()
Stop ==
    /\ \/ /\ stopPc = "idle"
          /\ srvDone' = TRUE
          /\ stopPc' = "udp"
          /\ UNCHANGED srvSock
       \/ /\ stopPc = "udp"
          /\ srvSock' = CloseIfSet("udp")
          /\ stopPc' = "tcp"
          /\ UNCHANGED srvDone
       \/ /\ stopPc = "tcp"
          /\ srvSock' = CloseIfSet("tcp")
          /\ stopPc' = "wait"
          /\ UNCHANGED srvDone
       \/ /\ stopPc = "wait"
          /\ wg = 0
          /\ stopPc' = "returned"
          /\ UNCHANGED <<srvDone, srvSock>>
    /\ UNCHANGED <<callerDone, srvConn, srvPc, errChan, wg, startPc, accepted>>
    /\ SrvFrame

\* the context handed to Start is cancelled or reaches its deadline
CallerCancel ==
    /\ ~callerDone
    /\ callerDone' = TRUE
    /\ UNCHANGED <<srvDone, srvConn, srvSock, srvPc, errChan, wg, stopPc, startPc,
                   accepted>>
    /\ SrvFrame

\* the select of Start: case err := <-errChan: return err;
\* case <-ctx.Done(): return nil
StartReturn(result) ==
    /\ startPc = "waiting"
    /\ \/ /\ result = "err"
          /\ errChan # << >>
          /\ errChan' = Tail(errChan)
       \/ /\ result = "nil"
          /\ callerDone
          /\ UNCHANGED errChan
    /\ startPc' = result
    /\ UNCHANGED <<srvDone, callerDone, srvConn, srvSock, srvPc, wg, stopPc, accepted>>
    /\ SrvFrame

\* no server runs
SrvUnused ==
    /\ srvDone = FALSE
    /\ callerDone = FALSE
    /\ srvConn = << >>
    /\ srvSock = << >>
    /\ srvPc = << >>
    /\ errChan = << >>
    /\ wg = 0
    /\ stopPc = ""
    /\ startPc = ""
    /\ accepted = << >>

\* the state of the parts a specification does not use
ExtraUnused ==
    /\ KeysUnused
    /\ ConnUnused
    /\ PoolUnused
    /\ SrvUnused
    /\ LaterUnused

(***************************************************************************)
(* The specifications.                                                     *)
(***************************************************************************)
\* time passes between calls
Tick ==
    /\ now < MaxTime
    /\ now' = now + 1
    /\ UNCHANGED <<limiterVars, cacheVars, codecVars, handlerVars, extraVars>>

\* time passes between cache calls
CacheTick ==
    /\ now < MaxCacheTime
    /\ now' = now + 1
    /\ UNCHANGED <<limiterVars, cacheVars, codecVars, handlerVars, extraVars>>

\* ratelimit.New(rate, burst)
LimiterInit ==
    /\ \E c \in LimiterConfigs : rate = c.rate /\ burst = c.burst
    /\ cleanupEvery = CleanupEvery
    /\ limits = << >>
    /\ rlStats = [allowed |-> 0, limited |-> 0, activeKeys |-> 0]
    /\ lastAllow = None
    /\ grants = [k \in ClientKeys |-> << >>]

Init ==
    /\ now = 0
    /\ LimiterInit
    /\ CacheUnused
    /\ CodecUnused
    /\ HandlerUnused
    /\ ExtraUnused

Next ==
    \/ \E key \in ClientKeys : Allow(key)
    \/ cleanup
    \/ Tick

\* the rate limiter alone: Allow calls, idle sweeps and the passage of time
Spec == Init /\ [][Next]_vars

\* a limiter of a specification that makes no Allow call
LimiterUnused ==
    /\ rate = 1
    /\ burst = 1
    /\ cleanupEvery = CleanupEvery
    /\ limits = << >>
    /\ rlStats = [allowed |-> 0, limited |-> 0, activeKeys |-> 0]
    /\ lastAllow = None
    /\ grants = << >>

CacheInit ==
    /\ now = 0
    /\ LimiterUnused
    /\ \E c \in CacheConfigs : NewCache(c.maxSize, c.defaultTTL)
    /\ setInfo = [k \in CacheKeys |-> None]
    /\ CodecUnused
    /\ HandlerUnused
    /\ ExtraUnused

CacheNext ==
    \/ \E key \in CacheKeys, value \in CacheValues, ttl \in CacheTTLs :
          Set(key, value, ttl) /\ UNCHANGED <<now, limiterVars, codecVars, handlerVars, extraVars>>
    \/ \E key \in CacheKeys : Get(key) /\ UNCHANGED <<now, limiterVars, codecVars, handlerVars, extraVars>>
    \/ \E key \in CacheKeys : Delete(key) /\ UNCHANGED <<now, limiterVars, codecVars, handlerVars, extraVars>>
    \/ Cleanup /\ UNCHANGED <<now, limiterVars, codecVars, handlerVars, extraVars>>
    \/ CacheTick

\* BasicCache alone: Set, Get, Delete and Cleanup calls and the passage of time
SpecCache == CacheInit /\ [][CacheNext]_vars

\* a message arrives
CodecInit ==
    /\ now = 0
    /\ LimiterUnused
    /\ CacheUnused
    /\ HandlerUnused
    /\ ExtraUnused
    /\ msg \in CodecMessages
    /\ pc = "start"
    /\ qErr = ""
    /\ response = Nil
    /\ legacy = Nil
    /\ rErr = ""

CodecNext ==
    \/ RunValidateQuery /\ UNCHANGED <<now, limiterVars, cacheVars, handlerVars, extraVars>>
    \/ RunCreateDNSResponse /\ UNCHANGED <<now, limiterVars, cacheVars, handlerVars, extraVars>>
    \/ RunLegacyCreateDNSResponse /\ UNCHANGED <<now, limiterVars, cacheVars, handlerVars, extraVars>>
    \/ RunValidateResponse /\ UNCHANGED <<now, limiterVars, cacheVars, handlerVars, extraVars>>

\* the validator and the two synthesizers run on one message
SpecCodec == CodecInit /\ [][CodecNext]_vars

\* time passes between requests
HandlerTick ==
    /\ now < MaxHandlerTime
    /\ now' = now + 1
    /\ UNCHANGED <<limiterVars, cacheVars, codecVars, handlerVars, extraVars>>

\* NewDNSListener(cfg) with cfg.CacheTTL and cfg.CacheCleanupInterval of one
\* second; the limiter's cleanupEvery of 5 minutes is 300 * Unit ticks
ListenerState(configs, cacheKeys) ==
    /\ now = 0
    /\ \E c \in configs : rate = c.rate /\ burst = c.burst
    /\ cleanupEvery = 300 * Unit
    /\ limits = << >>
    /\ rlStats = [allowed |-> 0, limited |-> 0, activeKeys |-> 0]
    /\ lastAllow = None
    /\ grants = [k \in ClientKeys |-> << >>]
    /\ NewCache(1024 * 1024 * 100, Unit)
    /\ setInfo = [k \in cacheKeys |-> None]
    /\ CodecUnused
    /\ vstats = NewValidator
    /\ metrics = [totalRequests |-> 0, cacheHits |-> 0, cacheMisses |-> 0, errors |-> 0]
    /\ cacheTTL = Unit
    /\ cleanupInterval = Unit
    /\ crashed = FALSE
    /\ calls = << >>

\* a listener whose HandleRequest is called directly
ListenerInit(configs, cacheKeys) ==
    /\ ListenerState(configs, cacheKeys)
    /\ ExtraUnused

\* a listener with one request per second and no burst, as TestRateLimiting
\* configures it
HandlerInit == ListenerInit(HandlerConfigs, HandlerKeys)

\* the limiter's sweep needs a bucket idle for more than 5 minutes and cannot
\* run within MaxHandlerTime; it is not among the steps
HandlerNext ==
    \/ \E data \in HandlerQueries, spare \in Spares, addr \in ClientKeys :
          HandleRequest(data, spare, addr)
    \/ startCleanup
    \/ HandlerTick

\* the request handler: requests, the cache's janitor and the passage of time
SpecHandler == HandlerInit /\ [][HandlerNext]_vars

\* a listener with 100 requests per second and a burst of 10, as
\* TestDNSListenerCache configures it
RepeatInit == ListenerInit(RepeatConfigs, RepeatKeys)

\* one client repeats a question under other ids and flags
RepeatNext ==
    \/ \E data \in RepeatQueries, addr \in RepeatClients :
          HandleRequest(data, << >>, addr)
    \/ startCleanup
    \/ HandlerTick

\* the request handler serving repeated questions
SpecRepeat == RepeatInit /\ [][RepeatNext]_vars

\* two queries arrive, each in a buffer of its own
KeyInit ==
    /\ now = 0
    /\ LimiterUnused
    /\ CacheUnused
    /\ CodecUnused
    /\ HandlerUnused
    /\ \E p \in KeyPairs : keyPair = <<p.a, p.b>> /\ keyKind = p.kind
    /\ keySpares \in Spares \X Spares
    /\ keys = << >>
    /\ ConnUnused
    /\ PoolUnused
    /\ SrvUnused
    /\ LaterUnused

KeyNext ==
    /\ RunCacheKeys
    /\ UNCHANGED <<now, limiterVars, cacheVars, codecVars, handlerVars, connVars, poolVars, srvVars, laterVars>>

\* the cache keys of two related queries
SpecKey == KeyInit /\ [][KeyNext]_vars

\* a listener behind a network.Server: a client has connected over TCP and
\* sent its framed messages, the connection's buffer is fresh
ConnInit ==
    /\ ListenerState(HandlerConfigs, {})
    /\ KeysUnused
    /\ PoolUnused
    /\ SrvUnused
    /\ LaterUnused
    /\ \E fs \in ConnScripts :
          /\ connFrames = fs
          /\ connPending \in Segmentations(fs)
    /\ connAvail = << >>
    /\ connBuffer = Zeros(BufferSize)
    /\ connPc = "length"
    /\ connLength = 0
    /\ connWhy = ""
    /\ netLog = << >>

ConnNext ==
    \/ Deliver
    \/ ReadLength
    \/ ReadMessage
    \/ \E data \in UdpQueries : handleUDPRequest(data, UdpSpare, UdpClient)
    \/ startCleanup
    \/ HandlerTick

\* the server's TCP connection handler and UDP handler in front of the
\* request handler
SpecConn == ConnInit /\ [][ConnNext]_vars

\* processor.New(cfg, handler, metrics) and Start(): the workers wait for
\* requests
PoolInit ==
    /\ now = 0
    /\ LimiterUnused
    /\ CacheUnused
    /\ CodecUnused
    /\ HandlerUnused
    /\ KeysUnused
    /\ ConnUnused
    /\ SrvUnused
    /\ LaterUnused
    /\ requestCh = << >>
    /\ poolDone = FALSE
    /\ poolErrors = 0
    /\ workers = [w \in 1..PoolWorkers |-> IdleWorker]
    /\ lastProcess = None

PoolNext ==
    \/ \E req \in PoolRequests : Process(req)
    \/ StopPool
    \/ \E w \in 1..PoolWorkers :
          \/ Dequeue(w)
          \/ WorkerExit(w)
          \/ Expire(w)
          \/ \E ok \in BOOLEAN : Attempt(w, ok)
          \/ \E ok \in BOOLEAN : Send(w, ok)

\* the worker pool: requests offered, workers handling them, deadlines, Stop
SpecPool == PoolInit /\ [][PoolNext]_vars

\* NewServer(port, handler) and Start(ctx) up to its select: the wait group
\* counts the two listener goroutines, which have not run yet
SrvInit ==
    /\ now = 0
    /\ LimiterUnused
    /\ CacheUnused
    /\ CodecUnused
    /\ HandlerUnused
    /\ KeysUnused
    /\ ConnUnused
    /\ PoolUnused
    /\ LaterUnused
    /\ srvDone = FALSE
    /\ callerDone = FALSE
    /\ srvConn = [l \in Listeners |-> FALSE]
    /\ srvSock = [l \in Listeners |-> "none"]
    /\ srvPc = [l \in Listeners |-> "start"]
    /\ errChan = << >>
    /\ wg = 2
    /\ stopPc = "idle"
    /\ startPc = "waiting"
    /\ accepted = << >>

SrvNext ==
    \/ \E l \in Listeners, ok \in BOOLEAN : Listen(l, ok)
    \/ \E l \in Listeners : Assign(l)
    \/ \E l \in Listeners : Select(l)
    \/ \E l \in Listeners : Read(l)
    \/ Stop
    \/ CallerCancel
    \/ \E result \in {"nil", "err"} : StartReturn(result)

\* a started server, Stop called at any moment
SpecServer == SrvInit /\ [][SrvNext]_vars

\* the process is started with one of the command lines
CliInit ==
    /\ now = 0
    /\ LimiterUnused
    /\ CacheUnused
    /\ CodecUnused
    /\ HandlerUnused
    /\ KeysUnused
    /\ ConnUnused
    /\ PoolUnused
    /\ SrvUnused
    /\ CfgUnused
    /\ DataUnused
    /\ UdpUnused
    /\ TcpUnused
    /\ LastUnused
    /\ cliArgs \in CliArgs
    /\ cliPc = "start"
    /\ exitCode = -1
    /\ sigChan = << >>
    /\ runPc = "none"
    /\ lsnSock = [l \in Listeners |-> "none"]
    /\ logFile = "none"
    /\ logRecords = 0
    /\ legacyCh = << >>
    /\ requests = << >>
    /\ legacyCache = {}

CliNext ==
    \/ \E fileOk \in BOOLEAN : runCommand(fileOk)
    \/ \E sig \in Signals : Signal(sig)
    \/ ReceiveSignal
    \/ Run
    \/ \E l \in Listeners, ok \in BOOLEAN : Bind(l, ok)
    \/ \E l \in Listeners, data \in LegacyQueries : Enqueue(l, data)
    \/ \E allowed \in BOOLEAN : worker(allowed)
    \/ \E id \in 1..MaxCliRequests : Reply(id)

\* the process from its start to its exit
SpecCli == CliInit /\ [][CliNext]_vars

\* a configuration is loaded; a server answers on some of the ports
CfgInit ==
    /\ now = 0
    /\ LimiterUnused
    /\ CacheUnused
    /\ CodecUnused
    /\ HandlerUnused
    /\ KeysUnused
    /\ ConnUnused
    /\ PoolUnused
    /\ SrvUnused
    /\ CliUnused
    /\ DataUnused
    /\ UdpUnused
    /\ TcpUnused
    /\ LastUnused
    /\ config \in Configs
    /\ cfgPc = "loaded"
    /\ cfgErrors = << >>
    /\ portsInUse \in SUBSET {"8053"}

CfgNext ==
    \/ ValidateConfig

\* one call of ValidateConfig on each configuration
SpecConfig == CfgInit /\ [][CfgNext]_vars

\* the workers are idle and the pool of request structs is empty
DataInit ==
    /\ now = 0
    /\ LimiterUnused
    /\ CacheUnused
    /\ CodecUnused
    /\ HandlerUnused
    /\ KeysUnused
    /\ ConnUnused
    /\ PoolUnused
    /\ SrvUnused
    /\ CliUnused
    /\ CfgUnused
    /\ UdpUnused
    /\ TcpUnused
    /\ LastUnused
    /\ reqPool = << >>
    /\ handling = [w \in DataWorkers |-> NoRequest]
    /\ handled = 0

DataNext ==
    \/ \E w \in DataWorkers, req \in DataRequests, i \in 0..MaxDataRequests :
          GetRequest(w, req, i)
    \/ \E w \in DataWorkers : Invoke(w)
    \/ \E w \in DataWorkers : PutRequest(w)
    \/ DropPooled

\* the workers of one pool handle requests
SpecPoolData == DataInit /\ [][DataNext]_vars

\* startUDP has made its buffer and enters its loop
UdpInit ==
    /\ now = 0
    /\ LimiterUnused
    /\ CacheUnused
    /\ CodecUnused
    /\ HandlerUnused
    /\ KeysUnused
    /\ ConnUnused
    /\ PoolUnused
    /\ SrvUnused
    /\ CliUnused
    /\ CfgUnused
    /\ DataUnused
    /\ TcpUnused
    /\ LastUnused
    /\ udpBuffer = Zeros(UdpBufferSize)
    /\ udpRead = None
    /\ udpTasks = << >>

UdpNext ==
    \/ \E dg \in UdpDatagrams, k \in 0..40 : ReadFromUDP(dg, k)
    \/ StartHandler
    \/ \E t \in 1..MaxUdpReads : RunHandler(t)

\* the UDP read loop and its handler goroutines
SpecUdp == UdpInit /\ [][UdpNext]_vars

\* the connections are accepted and their handlers start
TcpInit ==
    /\ now = 0
    /\ LimiterUnused
    /\ CacheUnused
    /\ CodecUnused
    /\ HandlerUnused
    /\ KeysUnused
    /\ ConnUnused
    /\ PoolUnused
    /\ SrvUnused
    /\ CliUnused
    /\ CfgUnused
    /\ DataUnused
    /\ UdpUnused
    /\ LastUnused
    /\ tcpConns = [c \in TcpConns |-> Accepted]
    /\ tcpDone = FALSE

TcpNext ==
    \/ \E c \in TcpConns : ClientSend(c)
    \/ \E c \in TcpConns : ClientClose(c)
    \/ \E c \in TcpConns : TcpSelect(c)
    \/ \E c \in TcpConns, tooLong \in BOOLEAN : ReadPrefix(c, tooLong)
    \/ \E c \in TcpConns : ReadBody(c)
    \/ \E c \in TcpConns : HandleMessage(c)
    \/ CancelServer

\* the connection handlers, their clients and Stop
SpecTcp == TcpInit /\ [][TcpNext]_vars

\* the same where every handler goroutine that can take a step takes one;
\* nothing is assumed of the clients or of Stop
SpecTcpLive == SpecTcp /\ \A c \in TcpConns : WF_vars(HandlerStep(c))

\* the state of the parts that come before the last ones
EarlierUnused ==
    /\ LimiterUnused
    /\ CacheUnused
    /\ CodecUnused
    /\ HandlerUnused
    /\ KeysUnused
    /\ ConnUnused
    /\ PoolUnused
    /\ SrvUnused
    /\ CliUnused
    /\ CfgUnused
    /\ DataUnused
    /\ UdpUnused
    /\ TcpUnused

\* an empty cache of one of the kinds, shared by the goroutines
RaceInit ==
    /\ now = 0
    /\ EarlierUnused
    /\ AllowUnused
    /\ LogUnused
    /\ NlUnused
    /\ BgUnused
    /\ cacheKind \in CacheKinds
    /\ shardItems = [k \in RaceKeys |-> None]
    /\ getters = [g \in Getters |-> OutsideGet]
    /\ setCount = 0

RaceNext ==
    \/ RaceTick
    \/ \E k \in RaceKeys, v \in RaceValues, ttl \in 1..2 : RaceSet(k, v, ttl)
    \/ \E g \in Getters, k \in RaceKeys : GetRead(g, k)
    \/ \E g \in Getters : GetFinish(g)

\* concurrent Get and Set calls on one cache
SpecRace == RaceInit /\ [][RaceNext]_vars

\* a new limiter shared by the goroutines
AllowInit ==
    /\ now = 0
    /\ EarlierUnused
    /\ RaceUnused
    /\ LogUnused
    /\ NlUnused
    /\ BgUnused
    /\ rlConfig \in LimiterConfigs
    /\ rlMu = 0
    /\ rlLimits = << >>
    /\ rlCounters = [allowed |-> 0, limited |-> 0, activeKeys |-> 0]
    /\ allowers = [g \in Allowers |-> OutsideAllow]
    /\ allowDone = << >>

AllowNext ==
    \/ AllowTick
    \/ \E g \in Allowers, key \in ClientKeys : AllowLock(g, key)
    \/ \E g \in Allowers : AllowReturn(g)

\* concurrent Allow calls on one limiter
SpecAllow == AllowInit /\ [][AllowNext]_vars

\* NewFileLogger has opened the file and written the start entry
LogInit ==
    /\ now = 0
    /\ EarlierUnused
    /\ RaceUnused
    /\ AllowUnused
    /\ NlUnused
    /\ BgUnused
    /\ flFile = 1
    /\ flState = "good"
    /\ flWritten = <<"start">>
    /\ flLast = None

LogNext ==
    \/ Spoil
    \/ LogRequest
    \/ \E openOk \in BOOLEAN : Write(openOk)
    \/ CloseLog

\* the calls on one logger
SpecLog == LogInit /\ [][LogNext]_vars

\* the loader has made a configuration
NlInit ==
    /\ now = 0
    /\ EarlierUnused
    /\ RaceUnused
    /\ AllowUnused
    /\ LogUnused
    /\ BgUnused
    /\ nlConfig \in ListenerConfigs
    /\ nlLoaded = nlConfig
    /\ nlListener = None

NlNext ==
    \/ \E loggerOk \in BOOLEAN : NewDNSListener(loggerOk)

\* the construction of a listener from each configuration
SpecNewListener == NlInit /\ [][NlNext]_vars

\* cache.New(cfg) and nothing stored yet
BgInit ==
    /\ now = 0
    /\ EarlierUnused
    /\ RaceUnused
    /\ AllowUnused
    /\ LogUnused
    /\ NlUnused
    /\ bgItems = {}
    /\ bgStats = [Hits |-> 0, Misses |-> 0]
    /\ bgGetters = [g \in BgGetters |-> OutsideBgGet]
    /\ bgDone = 0

BgNext ==
    \/ \E g \in BgGetters, key \in BgKeys : BgGetRLock(g, key)
    \/ \E g \in BgGetters : BgGetLoad(g)
    \/ \E g \in BgGetters : BgGetStore(g)
    \/ \E key \in BgKeys : BgSet(key)
    \/ \E key \in BgKeys : BgDelete(key)

\* Get calls from several goroutines on one BasicCache
SpecBgGet == BgInit /\ [][BgNext]_vars

(***************************************************************************)
(* Claims about the rate limiter, checked under Spec.                      *)
(***************************************************************************)

\* C1: after any sequence of Allow calls (any keys, any elapsed time) and
\* idle sweeps, every bucket holds at least 0 and at most burst tokens.
C1_TokensWithinBurst ==
    \A k \in DOMAIN limits :
        /\ limits[k].tokens >= 0
        /\ limits[k].tokens <= burst * Unit

\* C1 witness: a request was refused, and a bucket that has been refilled
\* holds a fractional number of tokens strictly between 0 and burst.
C1_Witness ==
    /\ rlStats.limited > 0
    /\ \E k \in DOMAIN limits :
        /\ limits[k].tokens > 0
        /\ limits[k].tokens < burst * Unit
        /\ limits[k].tokens % Unit # 0
        /\ limits[k].lastCheck > 0

\* the number of Allow(k) calls that returned true at a time in [s, e]
GrantsIn(k, s, e) ==
    Cardinality({i \in 1..Len(grants[k]) : grants[k][i] >= s /\ grants[k][i] <= e})

\* every interval [s, e] of the run so far obeys the bound L*T + B for key k
WindowBound(k) ==
    \A s \in 0..now : \A e \in s..now :
        GrantsIn(k, s, e) * Unit <= rate * (e - s) + burst * Unit

\* C2 as stated: for every rate L and burst B, the number of Allow calls of
\* one key that return true in any interval of length T is at most L*T + B,
\* whatever idle sweeps run in between.
C2_Original == \A k \in ClientKeys : WindowBound(k)

\* C2 amended: the bound L*T + B holds whenever a bucket that is idle for
\* cleanupEvery refills completely, that is when B <= L * cleanupEvery.
C2_WindowBound ==
    (burst * Unit <= rate * cleanupEvery) => \A k \in ClientKeys : WindowBound(k)

\* C2 witness: under such a configuration a sweep has dropped the bucket of a
\* key that was granted requests before and after the sweep, and that key
\* was also refused.
C2_Witness ==
    /\ burst * Unit <= rate * cleanupEvery
    /\ rlStats.limited > 0
    /\ \E k \in ClientKeys :
        /\ Len(grants[k]) >= 3
        /\ lastAllow # None
        /\ lastAllow.key = k
        /\ ~lastAllow.existed
        /\ lastAllow.at > 0

\* the tokens Allow finds after creating or refilling the bucket, as C3
\* states them
C3_Start(c) ==
    IF c.existed
    THEN Min(burst * Unit, c.pre.tokens + (c.at - c.pre.lastCheck) * rate)
    ELSE burst * Unit

\* C3: Allow(key) on a key with no bucket creates one with tokens = burst and
\* last_check = now; on an existing bucket it refills by elapsed time times
\* rate, capped at burst, and sets last_check = now; it then returns true and
\* removes exactly one token if tokens >= 1, and otherwise returns false and
\* removes none.
C3_AllowContract ==
    lastAllow # None =>
        /\ lastAllow.ret = (C3_Start(lastAllow) >= Unit)
        /\ (now - lastAllow.at <= cleanupEvery) => lastAllow.key \in DOMAIN limits
        /\ lastAllow.key \in DOMAIN limits =>
              limits[lastAllow.key] =
                  [tokens    |-> C3_Start(lastAllow) - (IF lastAllow.ret THEN Unit ELSE 0),
                   lastCheck |-> lastAllow.at]

\* C3 witness: Allow found an existing bucket with less than one token and,
\* after the refill for the elapsed time, granted the request and left a
\* fraction of a token behind.
C3_Witness ==
    /\ lastAllow # None
    /\ lastAllow.existed
    /\ lastAllow.pre.tokens < Unit
    /\ lastAllow.at > lastAllow.pre.lastCheck
    /\ lastAllow.ret
    /\ lastAllow.key \in DOMAIN limits
    /\ limits[lastAllow.key].tokens > 0

(***************************************************************************)
(* Claims about the cache, checked under SpecCache.                        *)
(***************************************************************************)

\* C5: in every cache state reachable by Set, Get, Delete and Cleanup calls
\* the sum of the sizes of the stored entries is at most max_bytes, also
\* after a Set whose value alone is larger than max_bytes.
C5_Original == SumSizes(items, DOMAIN items) <= maxSize

\* the ttl a Set call asked for: its argument, or the default ttl when the
\* argument is 0 ("use default")
AskedTTL(set) == IF set.ttl <= 0 THEN defaultTTL ELSE set.ttl

UsePos(q, k) == CHOOSE i \in 1..Len(q) : q[i] = k

\* C7: Set(k, bytes, ttl) inserts or replaces the entry for k and evicts in
\* least-recently-used order (a Get counts as a use): a Set that returns
\* never evicts an entry that was used more recently than an entry it keeps.
C7_Original ==
    (lastCall # None /\ lastCall.op = "Set" /\ stuck = "") =>
        \A e \in lastCall.evicted : \A k \in lastCall.kept :
            UsePos(lastCall.order, e) < UsePos(lastCall.order, k)

(***************************************************************************)
(* Claims about the validator and the synthesizers, checked under          *)
(* SpecCodec.                                                              *)
(***************************************************************************)

\* the header bytes of r outside the flag bytes (2, 3) and ANCOUNT (6, 7)
\* are those of q
HeaderKept(q, r) ==
    /\ Len(r) >= 12
    /\ \A i \in {0, 1, 4, 5, 8, 9, 10, 11} : At(r, i) = At(q, i)

\* C8: for any accepted query (length >= 12 with a valid question section)
\* the response has the same 12-byte header as the query except for the flag
\* bytes and ANCOUNT; in particular the transaction id is preserved:
\* response[0..2] == query[0..2].  Both synthesizers are held to it.
C8_HeaderPreserved ==
    (pc \in {"answered", "checked"} /\ qErr = "") =>
        /\ Len(msg) >= 12
        /\ HeaderKept(msg, response)
        /\ SubSeq(response, 1, 2) = SubSeq(msg, 1, 2)
        /\ HeaderKept(msg, legacy)
        /\ SubSeq(legacy, 1, 2) = SubSeq(msg, 1, 2)

\* C8 witness: an accepted query with a transaction id other than 0000 and
\* with answer and additional counts of its own was answered by both
\* synthesizers, and both answers differ from the query.
C8_Witness ==
    /\ pc = "checked"
    /\ qErr = ""
    /\ SubSeq(msg, 1, 2) = <<203, 23>>
    /\ At(msg, 7) = 2
    /\ At(msg, 11) = 1
    /\ response # msg
    /\ At(legacy, 7) = 1

\* C9: the response the request handler synthesizes for an accepted query
\* has QR set (byte 2 bit 0x80) and RA set (byte 3 bit 0x80), ANCOUNT = 1
\* (bytes 6..7 = 00 01), the query's question and trailing bytes copied
\* unchanged, and exactly one appended 16-byte answer record (C0 0C, type
\* 0001, class 0001, 4-byte TTL, RDLENGTH 0004, 4-byte address); for a query
\* with flags 0100 the reply begins 0001 8180 0001 0001 0000 0000.
C9_Original ==
    (pc \in {"synthesized", "answered", "checked"} /\ qErr = "") =>
        /\ Len(response) = Len(msg) + 16
        /\ And80(At(response, 2)) = 128
        /\ And80(At(response, 3)) = 128
        /\ SubSeq(response, 7, 8) = <<0, 1>>
        /\ SubSeq(response, 13, Len(msg)) = SubSeq(msg, 13, Len(msg))
        /\ SubSeq(response, Len(msg) + 1, Len(msg) + 6) = <<192, 12, 0, 1, 0, 1>>
        /\ SubSeq(response, Len(msg) + 11, Len(msg) + 12) = <<0, 4>>
        /\ (msg = ExampleQuery =>
               SubSeq(response, 1, 12) = <<0, 1, 129, 128, 0, 1, 0, 1, 0, 0, 0, 0>>)

\* C10: round trip: for every byte sequence q, if ValidateQuery(q) succeeds
\* then ValidateResponse(synthesize(q)) succeeds.
C10_RoundTrip ==
    (pc = "checked" /\ qErr = "") => rErr = ""

\* C10 witness: a query without the QR bit, with two questions and trailing
\* bytes, passed ValidateQuery and its synthesized response passed
\* ValidateResponse.
C10_Witness ==
    /\ pc = "checked"
    /\ qErr = ""
    /\ rErr = ""
    /\ And80(At(msg, 2)) = 0
    /\ QuestionCount(msg) = 2
    /\ Len(msg) > 12 + Len(ExampleQuestion)
    /\ response # Nil

(***************************************************************************)
(* Claims about the request handler, checked under SpecHandler.            *)
(***************************************************************************)

\* the HandleRequest calls made from address a, in order
CallsOf(a) == SelectSeq(calls, LAMBDA c : c.addr = a)

\* the number of calls among the first n calls that the limiter refused
RefusedAmong(n) ==
    Cardinality({i \in 1..n : calls[i].err = "rate limit exceeded"})

\* the position in calls of the j-th call made from address a
CallIndex(a, j) ==
    CHOOSE i \in 1..Len(calls) :
        /\ calls[i].addr = a
        /\ Cardinality({h \in 1..i : calls[h].addr = a}) = j

\* C4: with rate_limit = 1 and burst = 1, of two back-to-back HandleRequest
\* calls from the same client address the first returns a synthesized
\* response and the second is dropped (error returned, nil response, the
\* limiter's limited counter goes up by one, to 1 when no call was refused
\* before); a third call from that client made at least one second later
\* returns a synthesized response again.
C4_RateLimitScenario ==
    (rate = 1 /\ burst = 1) =>
        \A a \in ClientKeys :
            LET cs == CallsOf(a)
            IN  (/\ Len(cs) >= 2
                 /\ cs[1].at = cs[2].at
                 /\ ValidateQuery(cs[1].data) = "") =>
                    /\ cs[1].err = ""
                    /\ cs[1].resp # Nil
                    /\ cs[1].resp = CreateDNSResponse(cs[1].data)
                    /\ cs[2].err = "rate limit exceeded"
                    /\ cs[2].resp = Nil
                    /\ cs[2].limited = RefusedAmong(CallIndex(a, 2))
                    /\ (RefusedAmong(CallIndex(a, 2) - 1) = 0 => cs[2].limited = 1)
                    /\ (/\ Len(cs) >= 3
                        /\ cs[3].at >= cs[2].at + Unit
                        /\ ValidateQuery(cs[3].data) = "") =>
                           /\ cs[3].err = ""
                           /\ cs[3].resp # Nil
                           /\ cs[3].resp = CreateDNSResponse(cs[3].data)

\* C4 witness: with rate_limit = 1 and burst = 1 one client sent the example
\* query twice back to back and a third time one second later; the second
\* call was refused with the limited counter at 1, the third was answered.
C4_Witness ==
    /\ rate = 1
    /\ burst = 1
    /\ Len(calls) = 3
    /\ \A i \in 1..3 : calls[i].addr = "10.0.0.1:5353" /\ calls[i].data = ExampleQuery
    /\ calls[1].at = calls[2].at
    /\ calls[3].at = calls[2].at + Unit
    /\ calls[1].resp # Nil
    /\ calls[2].err = "rate limit exceeded"
    /\ calls[2].limited = 1
    /\ calls[3].err = ""
    /\ calls[3].resp # Nil
    /\ rlStats.limited = 1

(***************************************************************************)
(* Claims about the cache key, checked under SpecKey.                      *)
(***************************************************************************)

\* C11: the cache key (fingerprint) of a query depends only on the bytes from
\* offset 12 to the end of the last question: two queries that differ only
\* in the transaction id or in a trailing OPT additional section have equal
\* fingerprints, and queries with different question sections have
\* different fingerprints.
C11_Original ==
    keys # << >> =>
        /\ ~keys[1].panic
        /\ ~keys[2].panic
        /\ keyKind \in {"id", "opt"} => keys[1].key = keys[2].key
        /\ keyKind = "question" => keys[1].key # keys[2].key

(***************************************************************************)
(* Claims about repeated questions, checked under SpecRepeat.              *)
(***************************************************************************)

\* the first two calls come from one client within the cache ttl and carry
\* queries that differ in the transaction id and in nothing else, the first
\* of them a query the validator accepts
SameQuestionTwice ==
    /\ Len(calls) >= 2
    /\ calls[1].addr = calls[2].addr
    /\ calls[2].at - calls[1].at <= cacheTTL
    /\ ValidateQuery(calls[1].data) = ""
    /\ Len(calls[2].data) = Len(calls[1].data)
    /\ SubSeq(calls[2].data, 1, 2) # SubSeq(calls[1].data, 1, 2)
    /\ SubSeq(calls[2].data, 3, Len(calls[2].data))
          = SubSeq(calls[1].data, 3, Len(calls[1].data))

\* C12: when the same client sends two queries with identical question
\* sections but different transaction ids, both HandleRequest calls succeed,
\* the cache records exactly one miss and then one hit, and the two
\* responses differ only in the transaction-id bytes: the response on the
\* cache hit carries the second query's transaction id, never the cached
\* bytes of the first.
C12_SameQuestionOtherId ==
    SameQuestionTwice =>
        /\ calls[1].err = "" /\ calls[1].resp # Nil
        /\ calls[2].err = "" /\ calls[2].resp # Nil
        /\ calls[1].misses = 1 /\ calls[1].hits = 0
        /\ calls[2].misses = 1 /\ calls[2].hits = 1
        /\ (Len(calls) = 2 =>
               /\ cacheStats.Misses = 1 /\ cacheStats.Hits = 1
               /\ metrics.cacheMisses = 1 /\ metrics.cacheHits = 1)
        /\ Len(calls[2].resp) = Len(calls[1].resp)
        /\ SubSeq(calls[2].resp, 3, Len(calls[2].resp))
              = SubSeq(calls[1].resp, 3, Len(calls[1].resp))
        /\ SubSeq(calls[2].resp, 1, 2) = SubSeq(calls[2].data, 1, 2)
        /\ SubSeq(calls[1].resp, 1, 2) = SubSeq(calls[1].data, 1, 2)
        /\ calls[2].resp # calls[1].resp

\* C12 witness: the example query was answered on a miss and the same query
\* under another id was then answered on a hit with that other id, while
\* the cache still holds the first response.
C12_Witness ==
    /\ SameQuestionTwice
    /\ calls[1].data = ExampleQuery
    /\ calls[2].hits = 1
    /\ calls[2].resp # Nil
    /\ SubSeq(calls[2].resp, 1, 2) = <<255, 1>>
    /\ \E k \in DOMAIN items : items[k].value = calls[1].resp

\* C13: the request handler invokes validate(query) before any synthesis and
\* validate_response before returning: in every HandleRequest call that
\* returns a response, ValidateQuery succeeded on that call's query and
\* ValidateResponse succeeded on the returned bytes, on the cache-hit path as
\* well as on the cache-miss path.
C13_Original ==
    \A i \in 1..Len(calls) :
        calls[i].resp # Nil =>
            /\ ValidateQuery(calls[i].data) = ""
            /\ ValidateResponse(calls[i].resp) = ""

(***************************************************************************)
(* Claims about the validator, checked under SpecCodec.                    *)
(***************************************************************************)

RECURSIVE NameEnd(_, _)
\* the offset after the zero length byte that ends the label sequence
\* starting at off, or -1 when the message ends before such a byte
NameEnd(d, off) ==
    IF off >= Len(d) THEN -1
    ELSE IF At(d, off) = 0 THEN off + 1
    ELSE NameEnd(d, off + At(d, off) + 1)

RECURSIVE QuestionsWellFormed(_, _, _)
\* each of n questions starting at off has a label sequence that ends inside
\* the message and is followed by at least 4 bytes
QuestionsWellFormed(d, off, n) ==
    \/ n = 0
    \/ /\ NameEnd(d, off) # -1
       /\ NameEnd(d, off) + 4 <= Len(d)
       /\ QuestionsWellFormed(d, NameEnd(d, off) + 4, n - 1)

\* what C14 says ValidateQuery returns for the message d
ExpectedVerdict(d) ==
    IF Len(d) < 12 THEN ErrMessageTooShort
    ELSE IF d[5] * 256 + d[6] < 1 THEN ErrInvalidQuestionCount
    ELSE IF (d[3] \div 8) % 16 # 0 THEN ErrUnsupportedOpcode
    ELSE IF ~QuestionsWellFormed(d, 12, d[5] * 256 + d[6]) THEN ErrMalformedQuestion
    ELSE ""

\* C14: ValidateQuery accepts a message exactly when its length is >= 12,
\* QDCOUNT >= 1, the opcode field (bits 3..6 of byte 2) is zero, and each of
\* the QDCOUNT questions has a label sequence that ends with a zero length
\* byte inside the message and is followed by at least 4 bytes for qtype and
\* qclass; otherwise it returns too-short, no-questions, unsupported-opcode
\* or malformed respectively, without reading past the end of the message
\* (a read past the end has no value in the model and stops the check).
C14_ValidateQueryExact ==
    pc # "start" => qErr = ExpectedVerdict(msg)

\* C14 witness: a message that announces two questions and holds one was
\* refused as malformed.
C14_Witness ==
    /\ pc # "start"
    /\ qErr = ErrMalformedQuestion
    /\ Len(msg) = 12 + Len(ExampleQuestion)
    /\ QuestionCount(msg) = 2
    /\ SubSeq(msg, 13, Len(msg)) = ExampleQuestion

(***************************************************************************)
(* Claims about the server's connection and datagram handlers, checked     *)
(* under SpecConn.                                                         *)
(***************************************************************************)
IsTcp(e) == e.proto = "TCP"
\* the requests handled on the TCP connection, in order
TcpLog == SelectSeq(netLog, IsTcp)

\* C15: when a TCP client sends a frame of length 12 holding only a header
\* with QDCOUNT = 1 and no question, the handler returns a validation error,
\* no bytes are written back, and the connection stays open so that the next
\* framed message on it is read and handled.  Here the frame is the first on
\* the connection: the first request handled is that header, its result is
\* the validation error and nothing is written for it, and when the
\* connection handler has returned every frame the client sent was handled.
C15_Original ==
    (connFrames # << >> /\ connFrames[1] = HeaderOnlyQuery) =>
        /\ TcpLog # << >> =>
              /\ TcpLog[1].data = HeaderOnlyQuery
              /\ TcpLog[1].err = "invalid query"
              /\ TcpLog[1].out = << >>
        /\ (connPc = "returned" /\ ~crashed) =>
              /\ Len(TcpLog) = Len(connFrames)
              /\ \A i \in DOMAIN connFrames : TcpLog[i].data = connFrames[i]

\* C16: a client never observes an error message on the wire: for every
\* request handled, over UDP or TCP, either the synthesized answer to the
\* request is written back (behind its 2-byte length on TCP) or nothing is,
\* and nothing is written when the handler returned an error.
C16_AnswerOrSilence ==
    \A i \in DOMAIN netLog :
        LET e == netLog[i]
            answer == CreateDNSResponse(e.data)
        IN  /\ e.err # "" => e.out = << >>
            /\ \/ e.out = << >>
               \/ /\ answer # Nil
                  /\ e.proto = "UDP"
                  /\ e.out = <<answer>>
               \/ /\ answer # Nil
                  /\ e.proto = "TCP"
                  /\ e.out = << <<Len(answer) \div 256, Len(answer) % 256>>, answer >>

\* C16 witness: on one connection a query was answered and the next was
\* refused by the limiter, a datagram was refused by the validator, and only
\* the first got bytes back.
C16_Witness ==
    /\ Len(netLog) = 3
    /\ Len(TcpLog) = 2
    /\ TcpLog[1].err = "" /\ TcpLog[1].out # << >>
    /\ TcpLog[2].err = "rate limit exceeded" /\ TcpLog[2].out = << >>
    /\ \E i \in DOMAIN netLog :
          /\ netLog[i].proto = "UDP"
          /\ netLog[i].err = "invalid query"
          /\ netLog[i].out = << >>

\* C19: on a TCP connection each message is read as a 2-byte big-endian
\* length L and exactly L bytes; every L <= 512 is accepted without indexing
\* outside the buffer and the handler receives exactly those L bytes, also
\* when the stream arrives in several segments; each response is written as its
\* 2-byte big-endian length and its payload.  Every frame of the scripts has
\* L <= 512, so: the connection is never dropped for a too large length, the
\* i-th request handled carries the i-th payload sent, and what is written is
\* a length and a payload of that length.
C19_Original ==
    /\ connWhy # "too large"
    /\ Len(TcpLog) <= Len(connFrames)
    /\ \A i \in DOMAIN TcpLog :
          /\ i <= Len(connFrames) => TcpLog[i].data = connFrames[i]
          /\ TcpLog[i].out # << >> =>
                /\ Len(TcpLog[i].out) = 2
                /\ TcpLog[i].out[1] = <<Len(TcpLog[i].out[2]) \div 256,
                                        Len(TcpLog[i].out[2]) % 256>>

(***************************************************************************)
(* Claims about the worker pool, checked under SpecPool.                   *)
(***************************************************************************)

\* C17: the worker-pool queue never holds more than 20 x worker_count
\* requests, and an enqueue attempted while the queue is full never blocks
\* the caller: the request is dropped and the error counter is incremented by
\* exactly one.  Process can always be called to its end, and a call that
\* found the queue full left it as it was and counted one error.
C17_QueueBounded ==
    /\ Len(requestCh) <= 20 * PoolWorkers
    /\ (Len(requestCh) = 20 * PoolWorkers /\ poolErrors < MaxPoolErrors) =>
          ENABLED (\E req \in PoolRequests : Process(req))
    /\ (lastProcess # None /\ lastProcess.before >= 20 * PoolWorkers) =>
          /\ lastProcess.after = lastProcess.before
          /\ lastProcess.errors = 1

\* C17 witness: Process was called on a running pool whose queue held 20
\* requests; the queue still holds 20 and one error is counted.
C17_Witness ==
    /\ lastProcess # None
    /\ ~lastProcess.done
    /\ lastProcess.before = 20 * PoolWorkers
    /\ Len(requestCh) = 20 * PoolWorkers
    /\ poolErrors = 1

\* C18: a worker re-invokes the handler for a dequeued request only on
\* handler failure and at most max_retries = 3 times: once an invocation
\* succeeds the handler is not invoked again for that request, and the
\* response of that successful invocation is the one written back.  Of the
\* invocations made for a request there are at most 3, all but the last
\* failed, and a response written back is that of the first success.
C18_Original ==
    \A w \in DOMAIN workers :
        LET o == workers[w].outcomes
        IN  /\ Len(o) <= 3
            /\ \A i \in 1..(Len(o) - 1) : o[i] = "err"
            /\ \A i \in DOMAIN workers[w].wrote :
                  /\ o[workers[w].wrote[i]] = "ok"
                  /\ \A j \in 1..(workers[w].wrote[i] - 1) : o[j] = "err"

(***************************************************************************)
(* Claims about Start and Stop, checked under SpecServer.                  *)
(***************************************************************************)

\* C20: after Stop is called on a started Server, in every interleaving of
\* Stop with the listeners' startup, both sockets are closed, the UDP read
\* loop and the TCP accept loop both exit, Stop returns, and Start returns
\* nil.  With both listeners able to listen: while Stop runs it or a listener
\* can take a step, and once Stop has returned both loops have exited, no
\* socket is open, and Start has returned nil or can do so.
C20_Original ==
    (\A l \in Listeners : srvPc[l] # "failed") =>
        /\ stopPc \in {"udp", "tcp", "wait"} =>
              ENABLED (Stop \/ \E l \in Listeners : Assign(l) \/ Select(l) \/ Read(l)
                            \/ Listen(l, TRUE))
        /\ stopPc = "returned" =>
              /\ \A l \in Listeners : srvPc[l] = "done"
              /\ \A l \in Listeners : srvSock[l] = "closed"
              /\ startPc = "nil" \/ ENABLED StartReturn("nil")

(***************************************************************************)
(* Claims about the command line and the single-file listener, checked     *)
(* under SpecCli.                                                          *)
(***************************************************************************)
\* the process ran the listen command and exited
ListenExited == cliPc = "exited" /\ Len(cliArgs) >= 2 /\ cliArgs[2] = "listen"

\* C21: on SIGINT or SIGTERM the process stops accepting new work (closes
\* the listeners), cancels the worker pool, flushes and closes the logger and
\* stops the health server, and then exits with code 0; no log record written
\* before the signal is lost.  When the listener was started and the process
\* has exited: the code is 0, no socket of a listener is still open, the log
\* file is closed, and no request is left in the queue or with a party
\* waiting for its reply.
C21_Original ==
    (ListenExited /\ runPc = "started") =>
        /\ exitCode = 0
        /\ \A l \in Listeners : lsnSock[l] # "open"
        /\ logFile = "closed"
        /\ legacyCh = << >>
        /\ \A id \in DOMAIN requests : requests[id].state = "answered"

\* C22: the listen command exits with code 1 whenever the DNS listener
\* cannot be configured or started (the port is invalid or cannot be bound),
\* and with code 0 only on a clean shutdown.  When Run has failed or a
\* listener could not bind, the exit code is 1; an exit with 0 follows a
\* listener that was started with both ports bound (or no listener at all:
\* the port the tests use, a signal before Run has begun).
C22_Original ==
    LET broken == runPc = "failed" \/ \E l \in Listeners : lsnSock[l] = "failed"
    IN  /\ (ListenExited /\ broken) => exitCode = 1
        /\ (ListenExited /\ exitCode = 0) =>
              \/ runPc \in {"none", "new"}
              \/ /\ runPc = "started"
                 /\ \A l \in Listeners : lsnSock[l] = "open"

\* C30: in the single-file listener every request a listener enqueues
\* eventually releases the party waiting for its reply, whatever the worker
\* decides for it (answered from cache, answered fresh, or rate limited).
\* Once the worker is done with a request, a reply is in its respCh or the
\* waiting party has received it.
C30_Original ==
    \A id \in DOMAIN requests :
        requests[id].state \in {"queued", "cached reply", "fresh reply", "answered"}

\* C23: ValidateConfig returns an error whenever the worker count is outside
\* 1..128, the rate limit outside (0, 1 000 000], the rate burst outside
\* (0, 10 000] or above the rate limit, the cache TTL not positive, the
\* cleanup interval not positive or above the TTL, or the health port equal
\* to the DNS port.
C23_Original ==
    LET c == config
        violated ==
            \/ c.WorkerCount < 1 \/ c.WorkerCount > 128
            \/ c.RateLimit <= 0 \/ c.RateLimit > 1000000
            \/ c.RateBurst <= 0 \/ c.RateBurst > 10000
            \/ c.RateBurst > c.RateLimit
            \/ c.CacheTTL <= 0
            \/ c.CacheCleanupInterval <= 0
            \/ c.CacheCleanupInterval > c.CacheTTL
            \/ (c.HealthPort # "" /\ c.HealthPort = c.Port)
    IN (cfgPc = "validated" /\ violated) => cfgErrors # << >>

\* C24: once the deadline of a request has passed, the worker that handles it
\* invokes the handler no more for it and writes no response for it.
C24_NothingAfterDeadline ==
    [][\A w \in DOMAIN workers :
          (workers[w].expired /\ workers[w].pc \in {"attempt", "send"}) =>
              /\ workers'[w].outcomes = workers[w].outcomes
              /\ workers'[w].wrote = workers[w].wrote]_vars

\* the deadline passed after a handler invocation; the worker has left the
\* request without a response
C24_Witness ==
    \E w \in DOMAIN workers :
        /\ workers[w].expired
        /\ ~poolDone
        /\ workers[w].pc = "idle"
        /\ workers[w].outcomes # << >>
        /\ workers[w].wrote = << >>

\* C25: after the pool is cancelled no worker takes a further request, and a
\* request that is already being handled goes on (its next step is a handler
\* invocation or the write of its response) unless its own deadline expires.
C25_Original ==
    [][/\ poolDone => Len(requestCh') >= Len(requestCh)
       /\ \A w \in DOMAIN workers :
             (/\ poolDone
              /\ workers[w].pc \in {"attempt", "send"}
              /\ ~workers[w].expired
              /\ workers'[w] # workers[w]
              /\ ~workers'[w].expired) =>
                 \/ Len(workers'[w].outcomes) = Len(workers[w].outcomes) + 1
                 \/ workers[w].pc = "send" /\ poolErrors' = poolErrors
                 ]_vars

\* C26: the bytes a pool worker passes to the handler are exactly the bytes
\* of the request that was enqueued.
C26_Original ==
    \A w \in DOMAIN handling :
        handling[w].pc = "invoked" => handling[w].handed = handling[w].req.Data

\* C28: every request struct in the pool has its connection, client address
\* and protocol cleared and every byte of its buffer zero, and the bytes a
\* handler receives are those of its own request followed by zeros, never
\* bytes of an earlier request.
C28_PoolCleared ==
    /\ \A k \in DOMAIN reqPool :
          /\ reqPool[k].Conn = None
          /\ reqPool[k].ClientAddr = None
          /\ reqPool[k].Protocol = ""
          /\ \A i \in DOMAIN reqPool[k].Data : reqPool[k].Data[i] = 0
    /\ \A w \in DOMAIN handling :
          handling[w].pc = "invoked" =>
              handling[w].handed = Copy(Zeros(PoolDataSize), handling[w].req.Data)

\* a struct that an earlier request used was put into the pool and taken
\* from it, and a handler has received its buffer for a request shorter than
\* the buffer
C28_Witness ==
    \E w \in DOMAIN handling :
        /\ handling[w].pc = "invoked"
        /\ handling[w].reused
        /\ handling[w].req.Data = ExampleQuery

\* C27: the handler of every UDP datagram receives the bytes of that datagram
\* as they were received, also when further datagrams are read before or
\* while it runs.
C27_Original ==
    \A t \in DOMAIN udpTasks :
        udpTasks[t].seen # None => udpTasks[t].seen = udpTasks[t].sent

\* C29: every TCP connection handler terminates, and once the server is
\* stopped no handler stays blocked in a read.
C29_Original ==
    /\ \A c \in TcpConns : <>(tcpConns[c].pc = "returned")
    /\ tcpDone ~> (\A c \in TcpConns : tcpConns[c].pc \notin {"length", "message"})

(***************************************************************************)
(* Claims about concurrent calls, the logger and the loaded configuration  *)
(***************************************************************************)
\* C31: a Get that returns within the TTL of the entry it read returns that
\* entry's value, and a Get that finds an expired entry for a key leaves a
\* newer entry, stored for the key by a Set in the meantime, in the cache.
C31_Original ==
    [][\A g \in DOMAIN getters :
          /\ (getters'[g] # getters[g] /\ getters'[g].pc = "idle"
                  /\ DeletesKey(getters'[g].seen, now) = FALSE
                  /\ getters'[g].seen # None) =>
                 getters'[g].result = [value |-> getters'[g].seen.value, ok |-> TRUE]
          /\ (getters[g].pc = "read" /\ getters'[g].pc = "idle"
                  /\ shardItems[getters[g].key] # getters[g].seen) =>
                 shardItems' = shardItems]_vars

\* C32: under any interleaving of concurrent Allow calls the updates of one
\* client's bucket are serialized (every call that returns has worked on the
\* bucket as the call before it left it), the allowed and limited counters
\* sum to the number of calls that returned, and allowed is the number of
\* calls that returned true.
C32_AllowSerialized ==
    /\ \A i \in DOMAIN allowDone : allowDone[i].read = allowDone[i].held
    /\ rlCounters.allowed + rlCounters.limited = Len(allowDone)
    /\ rlCounters.allowed = Cardinality({i \in DOMAIN allowDone : allowDone[i].ret})

\* two calls for one client have returned, one true and one false, while
\* another goroutine waits for the mutex
C32_Witness ==
    /\ \E i, j \in DOMAIN allowDone :
          /\ allowDone[i].key = allowDone[j].key
          /\ allowDone[i].ret
          /\ ~allowDone[j].ret
    /\ rlMu # 0

\* C33: an idle sweep removes exactly the buckets whose last_check is older
\* than cleanup_every and leaves every other bucket as it is, and after every
\* Allow call and every sweep active_keys is the number of buckets held.
C33_SweepExact ==
    [][/\ (DOMAIN limits' # DOMAIN limits /\ DOMAIN limits' \subseteq DOMAIN limits) =>
             \A k \in DOMAIN limits :
                 /\ k \notin DOMAIN limits' <=> now - limits[k].lastCheck > cleanupEvery
                 /\ k \in DOMAIN limits' => limits'[k] = limits[k]
       /\ rlStats'.activeKeys = Cardinality(DOMAIN limits')]_vars

\* a sweep has removed the bucket of a client that had been served and has
\* kept the bucket of another
C33_Witness ==
    /\ \E k \in ClientKeys : grants[k] # << >> /\ k \notin DOMAIN limits
    /\ DOMAIN limits # {}
    /\ rlStats.activeKeys = 1

\* C34: after a logger call (LogRequest or Write) whose file write failed,
\* the logger holds a freshly opened handle on the log file, to which later
\* records are written (provided the file can be opened again).
C34_Original ==
    (flLast # None /\ flLast.failed /\ (flLast.op = "LogRequest" \/ flLast.reopened)) =>
        /\ flFile # flLast.file
        /\ flState = "good"

\* C35: constructing the DNS listener from a loaded configuration leaves
\* every field of that configuration as the loader made it.
C35_Original ==
    nlListener # None => nlConfig = nlLoaded

(***************************************************************************)
(* Claims about the termination and the counters of the cache, checked     *)
(* under SpecCache.                                                        *)
(***************************************************************************)

\* C36: every cache Set and Cleanup call returns (no call blocks on a lock
\* its own goroutine holds, no eviction loop runs for ever), also when the
\* total size is over max_bytes or one value is larger than max_bytes.
C36_Original ==
    (lastCall # None /\ lastCall.op = "Set") => stuck = ""

(***************************************************************************)
(* Claims about the handler's cache key and cache, checked under           *)
(* SpecHandler.                                                            *)
(***************************************************************************)

\* C37: for every input the end offset of the cache key lies between 12 and
\* the length of the query, and HandleRequest returns (a response or a
\* validation error) instead of failing on a slice out of range.
C37_Original ==
    \A i \in 1..Len(calls) :
        calls[i].err # "rate limit exceeded" =>
            /\ calls[i].err # "panic"
            /\ Len(calls[i].data) >= 12 =>
                  /\ 12 <= QuestionsEnd(calls[i].data, 12, QuestionCount(calls[i].data))
                  /\ QuestionsEnd(calls[i].data, 12, QuestionCount(calls[i].data))
                        <= Len(calls[i].data)

\* C38: under Get calls from several goroutines on the handler's cache,
\* hits + misses equals the number of Get calls that have returned: no
\* counter update made under the shared read lock is lost.
C38_Original ==
    (\A g \in DOMAIN bgGetters : bgGetters[g].pc = "idle") =>
        bgStats.Hits + bgStats.Misses = bgDone

\* C39: after any sequence of Set, Get, Delete and Cleanup calls that have
\* returned, bytes_in_memory equals the sum of the lengths of the stored
\* values (and size, len(c.items), the number of stored entries).  Checked
\* under SpecCache.
C39_Original ==
    stuck = "" =>
        /\ currentSize = SumSizes(items, DOMAIN items)
        /\ \A k \in DOMAIN items : items[k].size = Len(items[k].value)

====
